---------------------------- MODULE Spec2Model ----------------------------
(***************************************************************************)
(* FloorCastMPC: the assignment policies (assign_requests_greedy,          *)
(* assign_requests_mpc) and the collective-control dispatch simulator      *)
(* (simulate_dispatch), as main._run_strategy runs them.                   *)
(*                                                                         *)
(* Units.  The program computes in floats; the model computes in integers  *)
(* of a fixed unit per quantity, chosen so that every float literal of the *)
(* source is an integer:                                                   *)
(*   mass      1e-9 kg   (the admission tolerance 1e-9 is 1)               *)
(*   time      0.1 s                                                       *)
(*   distance  0.1 m     (BUILDING_FLOOR_HEIGHT 3.5 m is 35)               *)
(*   speed, acceleration: thousandths of 0.1 m per 0.1 s (per 0.1 s)       *)
(*   cost      1e-9      (eps 1e-9 is 1; the bias 1e-6 per second is 100   *)
(*                        per time unit)                                   *)
(* The values of config.py are not part of the sources; the model fixes    *)
(* one configuration (the definitions named after the cfg module below).   *)
(***************************************************************************)
EXTENDS Integers, Sequences, FiniteSets

(***************************************************************************)
(* Bounds of the model.                                                    *)
(***************************************************************************)
\* requests in one run of main._run_strategy
MaxRequests == 2
\* floors of the modelled building (floor_config.BUILDING_FLOORS is 15)
MaxFloor == 3
\* load, arrival_time values a request is drawn from
Loads == {2, 3, 6}
ArrivalTimes == {0, 40, 300}
\* requests in one run checked for termination
FairRequests == 1
\* requests in one call of assign_requests_greedy on its own
GreedyRequests == 3
\* largest max_batch argument of assign_requests_mpc on its own
MaxBatchArg == 1
\* requests in one call of assign_requests_mpc on lists of equal loads
LongRequests == 3
\* floors of the building in the runs that look at the pickup stop
PickupFloors == 4
\* processes of the grid search's pool, and the grid it sweeps
GridWorkers == 2
GridWindows == {100, 240}
GridBatches == {2, 3}

(***************************************************************************)
(* Configuration: the values of the cfg module.                            *)
(***************************************************************************)
BUILDING_FLOOR_HEIGHT == 35
ELEVATOR_COUNT == 2
ELEVATOR_CAPACITY == 4
HOLD_BASE_TIME == 20
HOLD_EFF_NORMAL == 2
HOLD_EFF_CONGESTED == 5
HOLD_CONGESTION_THRESHOLD == 4
KIN_MAX_SPEED_UP_EMPTY == 2500
KIN_MAX_SPEED_UP_FULL == 2000
KIN_MAX_SPEED_DOWN_EMPTY == 2600
KIN_MAX_SPEED_DOWN_FULL == 2400
KIN_ACC_UP_EMPTY == 100
KIN_ACC_UP_FULL == 80
KIN_DEC_DOWN_EMPTY == 100
KIN_DEC_DOWN_FULL == 90
KIN_SPEED_DECAY_RATE == 1000
KIN_ACC_DECAY_RATE == 800
ENERGY_CAR_MASS == 10
ENERGY_COUNTERWEIGHT_MASS == 12
ENERGY_FRICTION_PER_METER == 3
ENERGY_MOTOR_EFFICIENCY == 80
ENERGY_STANDBY_POWER == 5
WEIGHT_TIME == 1000
WEIGHT_ENERGY == 1
MPC_LOOKAHEAD_WINDOW == 100
MPC_MAX_BATCH == 2
SIM_TIME_HORIZON == 120

\* literals of the source, in the model's units
MassTol == 1
CostEps == 1
FinishBias == 100
Gravity == 981
InitialFloor == 1
\* time_step_s = 5 of assign_requests_milp, in the time unit
TimeStep == 50

(***************************************************************************)
(* Arithmetic helpers.                                                     *)
(***************************************************************************)
Abs(x) == IF x < 0 THEN -x ELSE x

Max(a, b) == IF a >= b THEN a ELSE b

Min(a, b) == IF a <= b THEN a ELSE b

\* the integer square root of x below 46224 * 46224: the multiple of 216
\* below the root first, then the root
SqrtOf[x \in Nat] ==
    LET base == 216 * (CHOOSE h \in 0..213 :
                          (216 * h) * (216 * h) <= x
                            /\ x < (216 * (h + 1)) * (216 * (h + 1)))
    IN CHOOSE r \in base..(base + 215) : r * r <= x /\ x < (r + 1) * (r + 1)

\* math.sqrt, rounded down to the unit
Sqrt(x) == SqrtOf[x]

\* math.exp(-rate * load / ELEVATOR_CAPACITY) in thousandths, as
\* 1 / (1 + x + x^2/2 + x^3/6) rounded down
ExpDecay(rate, load) ==
    LET x == (rate * load) \div ELEVATOR_CAPACITY
        sq == (x * x) \div 2000
        cu == (sq * x) \div 3000
    IN 1000000 \div (1000 + x + sq + cu)

(***************************************************************************)
(* models/kinematics.py                                                    *)
(***************************************************************************)
vmax_up(load) ==
    KIN_MAX_SPEED_UP_FULL
      + ((KIN_MAX_SPEED_UP_EMPTY - KIN_MAX_SPEED_UP_FULL)
           * ExpDecay(KIN_SPEED_DECAY_RATE, load)) \div 1000

vmax_down(load) ==
    KIN_MAX_SPEED_DOWN_FULL
      + ((KIN_MAX_SPEED_DOWN_EMPTY - KIN_MAX_SPEED_DOWN_FULL)
           * ExpDecay(KIN_SPEED_DECAY_RATE, load)) \div 1000

acc(load) ==
    KIN_ACC_UP_FULL
      + ((KIN_ACC_UP_EMPTY - KIN_ACC_UP_FULL)
           * ExpDecay(KIN_ACC_DECAY_RATE, load)) \div 1000

dec(load) ==
    KIN_DEC_DOWN_FULL
      + ((KIN_DEC_DOWN_EMPTY - KIN_DEC_DOWN_FULL)
           * ExpDecay(KIN_ACC_DECAY_RATE, load)) \div 1000

travel_time(load, origin_floor, destination_floor) ==
    LET distance == Abs(destination_floor - origin_floor) * BUILDING_FLOOR_HEIGHT
        direction == IF destination_floor > origin_floor THEN "up" ELSE "down"
        vmax == IF direction = "up" THEN vmax_up(load) ELSE vmax_down(load)
        a_acc == acc(load)
        a_dec == dec(load)
        v_peak == Sqrt(2000 * ((distance * a_acc * a_dec) \div (a_acc + a_dec)))
    IN IF v_peak <= vmax
       THEN (v_peak * (a_acc + a_dec)) \div (a_acc * a_dec)
       ELSE LET d_acc == (vmax * vmax) \div (2 * a_acc)
                d_dec == (vmax * vmax) \div (2 * a_dec)
                d_const == Max(1000 * distance - d_acc - d_dec, 0)
            IN vmax \div a_acc + vmax \div a_dec + d_const \div vmax

(***************************************************************************)
(* models/temporal.py                                                      *)
(***************************************************************************)
\* a dwell with the sign of the weight term slipped
HoldSignSlip(boarding_weight, alighting_weight) ==
    HOLD_BASE_TIME - HOLD_EFF_CONGESTED * (boarding_weight + alighting_weight)

\* line 8: the branch at or below the congestion threshold
HoldNormal(total_weight) == HOLD_BASE_TIME + HOLD_EFF_NORMAL * total_weight

\* a congested branch that forgets the part below the threshold
HoldCongestedOnly(total_weight) ==
    HOLD_BASE_TIME
      + HOLD_EFF_CONGESTED * (total_weight - HOLD_CONGESTION_THRESHOLD)

\* lines 10-15: the branch above the congestion threshold
HoldCongested(total_weight) ==
    LET normal_part == HOLD_EFF_NORMAL * HOLD_CONGESTION_THRESHOLD
        congested_part ==
            HOLD_EFF_CONGESTED * (total_weight - HOLD_CONGESTION_THRESHOLD)
    IN HOLD_BASE_TIME + normal_part + congested_part

hold_time(boarding_weight, alighting_weight) ==
    LET total_weight == boarding_weight + alighting_weight
    IN IF total_weight <= HOLD_CONGESTION_THRESHOLD
       THEN HoldNormal(total_weight)
       ELSE HoldCongested(total_weight)

(***************************************************************************)
(* models/energy.py                                                        *)
(***************************************************************************)
\* the motion energy without the clamp at zero
SegmentEnergySigned(load, distance, direction) ==
    LET delta_mass == (ENERGY_CAR_MASS + load) - ENERGY_COUNTERWEIGHT_MASS
        sign == IF direction = "up" THEN 1 ELSE -1
        energy_motion ==
            sign * Gravity * delta_mass * distance
              + 100 * ENERGY_FRICTION_PER_METER * distance
    IN (energy_motion * 100) \div ENERGY_MOTOR_EFFICIENCY

segment_energy(load, distance, direction) ==
    LET delta_mass == (ENERGY_CAR_MASS + load) - ENERGY_COUNTERWEIGHT_MASS
        sign == IF direction = "up" THEN 1 ELSE -1
        energy_motion ==
            sign * Gravity * delta_mass * distance
              + 100 * ENERGY_FRICTION_PER_METER * distance
    IN (Max(energy_motion, 0) * 100) \div ENERGY_MOTOR_EFFICIENCY

\* standby power times the elapsed duration
standby_energy(duration) == ENERGY_STANDBY_POWER * duration

(***************************************************************************)
(* State.                                                                  *)
(*   requests, elevators, policy, lookahead_window, max_batch: the         *)
(*     arguments of one run (main._run_strategy, or a direct call of       *)
(*     assign_requests_mpc with keyword arguments); an optional value is   *)
(*     <<>> (None) or <<v>>.                                               *)
(*   floor, queue, served_requests, initial_floor: ElevatorState           *)
(*     attributes, by elevator id.                                         *)
(*   pickup_time .. destination_arrival_time: Request attributes, by       *)
(*     request id; <<>> is None.                                           *)
(*   todo, forecast_floor: assign_requests_greedy's loop state.            *)
(*   unassigned .. candidate_indices: assign_requests_mpc's locals.        *)
(*   k, pc, current_floor .. emptyload_energy: simulate_dispatch's locals. *)
(*   status, incumbent, milp_result: the solver's status after             *)
(*     model.optimize(), whether it holds a solution, and what             *)
(*     assign_requests_milp did (returned True or False, or raised).       *)
(*   pool .. used_params: grid_search_penalty.main's pool of combinations  *)
(*     and, by worker process, its position in _worker, its combination,   *)
(*     the attributes _set_mpc_params has written in that process, and the *)
(*     horizon and batch_limit assign_requests_mpc computed there.         *)
(***************************************************************************)
VARIABLES
    requests, elevators, policy, lookahead_window, max_batch, simulator, phase,
    floor, queue, served_requests, initial_floor,
    pickup_time, dropoff_time, origin_arrival_time, destination_arrival_time,
    todo, forecast_floor,
    unassigned, plans, tie_cursor, horizon, batch_limit, candidate_indices,
    k, pc, current_floor, current_time, pending, waiting, onboard,
    service_log, direction, total_time, total_energy, emptyload_energy,
    all_served,
    status, incumbent, milp_result,
    pool, worker_pc, worker_combo, cfg_params, package_params, used_params,
    predictor, probe, dest_candidates, expected,
    door_weights, door_dwell, objective

inputVars ==
    <<requests, elevators, policy, lookahead_window, max_batch, simulator>>

elevVars == <<floor, queue, served_requests, initial_floor>>

stampVars ==
    <<pickup_time, dropoff_time, origin_arrival_time, destination_arrival_time>>

greedyVars == <<todo, forecast_floor>>

mpcVars ==
    <<unassigned, plans, tie_cursor, horizon, batch_limit, candidate_indices>>

simVars ==
    <<k, pc, current_floor, current_time, pending, waiting, onboard,
      service_log, direction, total_time, total_energy, emptyload_energy,
      all_served>>

milpVars == <<status, incumbent, milp_result>>

gridVars ==
    <<pool, worker_pc, worker_combo, cfg_params, package_params, used_params>>

\* prediction_api._MODEL and the last call of _estimate_incremental_cost
predVars == <<predictor, probe, dest_candidates, expected>>

\* the arguments and the result of one call of hold_time
doorVars == <<door_weights, door_dwell>>

\* what no step of the two policies or of the simulator writes
hostVars == <<inputVars, milpVars, gridVars, predVars, doorVars, objective>>

vars ==
    <<inputVars, phase, elevVars, stampVars, greedyVars, mpcVars, simVars,
      milpVars, gridVars, predVars, doorVars, objective>>

(***************************************************************************)
(* Lists of request ids.                                                   *)
(***************************************************************************)
Floors == 1..MaxFloor

ReqIds == DOMAIN requests

ElevIds == {elevators[i] : i \in DOMAIN elevators}

ToSet(s) == {s[i] : i \in DOMAIN s}

Contains(s, x) == \E i \in DOMAIN s : s[i] = x

\* list.pop(idx), idx counted from 1
RemoveAt(s, idx) == SubSeq(s, 1, idx - 1) \o SubSeq(s, idx + 1, Len(s))

RECURSIVE SumLoad(_)
SumLoad(s) ==
    IF s = <<>> THEN 0 ELSE requests[Head(s)].load + SumLoad(Tail(s))

RECURSIVE LexLess(_, _)
LexLess(a, b) ==
    IF a = <<>> \/ b = <<>> THEN FALSE
    ELSE IF a[1] < b[1] THEN TRUE
    ELSE IF a[1] > b[1] THEN FALSE
    ELSE LexLess(Tail(a), Tail(b))

\* min(iterable, key=...): the position of the first element whose key no
\* other element's key is below
PyMinIndex(keys) ==
    CHOOSE i \in DOMAIN keys :
        /\ \A j \in DOMAIN keys : ~LexLess(keys[j], keys[i])
        /\ \A j \in 1..(i - 1) : LexLess(keys[i], keys[j])

MinOf(S) == CHOOSE x \in S : \A y \in S : x <= y

MaxOf(S) == CHOOSE x \in S : \A y \in S : x >= y

RECURSIVE InsertByArrival(_, _)
InsertByArrival(s, x) ==
    IF s = <<>> THEN <<x>>
    ELSE IF requests[s[Len(s)]].arrival_time <= requests[x].arrival_time
         THEN Append(s, x)
         ELSE Append(InsertByArrival(SubSeq(s, 1, Len(s) - 1), x), s[Len(s)])

\* a queue taken in the order the policy appended to it
AsAppended(s) == s

\* sorted(ids, key=lambda r: r.arrival_time): stable
RECURSIVE SortedByArrival(_)
SortedByArrival(s) ==
    IF s = <<>> THEN <<>>
    ELSE InsertByArrival(SortedByArrival(SubSeq(s, 1, Len(s) - 1)), s[Len(s)])

None == <<>>

Some(v) == <<v>>

(***************************************************************************)
(* models/baseline_scheduler.py: assign_requests_greedy                    *)
(***************************************************************************)
\* a key that leaves the distance out
GreedyKeyNoDistance(e, r) == <<Len(queue[e]), 0, e>>

\* a key that puts the distance before the queue length
GreedyKeyDistanceFirst(e, r) ==
    <<Abs(forecast_floor[e] - requests[r].origin), Len(queue[e]), e>>

\* the key of min(elevators, key=...)
GreedyKey(e, r) ==
    <<Len(queue[e]), Abs(forecast_floor[e] - requests[r].origin), e>>

\* a forecast that reads the destination
ForecastDestination(r) == requests[r].destination

\* best._forecast_floor = req.origin
ForecastAfter(r) == requests[r].origin

GreedyBest(r) ==
    elevators[PyMinIndex([i \in DOMAIN elevators |-> GreedyKey(elevators[i], r)])]

\* when GreedyBegin can run
CanGreedyBegin ==
    /\ phase = "call"
    /\ policy = "greedy"

GreedyBegin ==
    /\ CanGreedyBegin
    /\ IF elevators = <<>>
       THEN /\ phase' = "assigned"
            /\ UNCHANGED <<elevVars, greedyVars>>
       ELSE /\ queue' = [e \in ElevIds |-> <<>>]
            /\ served_requests' = [e \in ElevIds |-> <<>>]
            /\ forecast_floor' = [e \in ElevIds |-> floor[e]]
            /\ todo' = SortedByArrival([i \in DOMAIN requests |-> i])
            /\ phase' = "greedy"
            /\ UNCHANGED <<floor, initial_floor>>
    /\ UNCHANGED <<hostVars, stampVars, mpcVars, simVars>>

\* when GreedyAssign can run
CanGreedyAssign ==
    /\ phase = "greedy"
    /\ todo # <<>>

GreedyAssign ==
    /\ CanGreedyAssign
    /\ LET req == Head(todo)
           best == GreedyBest(req)
       IN /\ queue' = [queue EXCEPT ![best] = Append(@, req)]
          /\ forecast_floor' = [forecast_floor EXCEPT ![best] = ForecastAfter(req)]
    /\ todo' = Tail(todo)
    /\ UNCHANGED <<hostVars, phase, floor, served_requests, initial_floor,
                   stampVars, mpcVars, simVars>>

\* when GreedyEnd can run
CanGreedyEnd ==
    /\ phase = "greedy"
    /\ todo = <<>>

GreedyEnd ==
    /\ CanGreedyEnd
    /\ forecast_floor' = <<>>
    /\ phase' = "assigned"
    /\ UNCHANGED <<hostVars, elevVars, stampVars, todo, mpcVars, simVars>>

(***************************************************************************)
(* mpc_scheduler.py: assign_requests_mpc                                   *)
(***************************************************************************)
_direction(start, end) ==
    IF end > start THEN "up" ELSE IF end < start THEN "down" ELSE "up"

\* the sums of _estimate_incremental_cost once its three durations are known
EstimateTotals(plan, request, travel_to_origin, dwell, travel_to_dest) ==
    LET origin == request.origin
        destination == request.destination
        arrival_at_origin == plan.time + travel_to_origin
        start_service == Max(arrival_at_origin, request.arrival_time)
        depart_time == start_service + dwell
        finish_time == depart_time + travel_to_dest
        energy_origin ==
            IF plan.floor # origin
            THEN segment_energy(0, Abs(plan.floor - origin) * BUILDING_FLOOR_HEIGHT,
                                _direction(plan.floor, origin))
                   + standby_energy(travel_to_origin)
            ELSE 0
        energy_dest ==
            IF origin # destination
            THEN segment_energy(request.load,
                                Abs(destination - origin) * BUILDING_FLOOR_HEIGHT,
                                _direction(origin, destination))
                   + standby_energy(travel_to_dest)
            ELSE 0
    IN [finish_time |-> finish_time,
        passenger_time |-> finish_time - request.arrival_time,
        energy |-> energy_origin + standby_energy(dwell) + energy_dest]

\* the weighted cost with the bias towards an early finish
EstimateCost(totals) ==
    [cost |-> WEIGHT_TIME * totals.passenger_time + WEIGHT_ENERGY * totals.energy
                + FinishBias * totals.finish_time,
     finish_time |-> totals.finish_time,
     passenger_time |-> totals.passenger_time]

_estimate_incremental_cost(plan, r) ==
    EstimateCost(
        EstimateTotals(plan, requests[r],
                       travel_time(0, plan.floor, requests[r].origin),
                       hold_time(requests[r].load, 0),
                       travel_time(requests[r].load, requests[r].origin,
                                   requests[r].destination)))

\* the for loop that fills candidate_indices (positions counted from 1)
RECURSIVE CandidateLoop(_, _, _, _, _)
CandidateLoop(un, idx, picked, window_limit, limit) ==
    IF idx > Len(un) THEN picked
    ELSE LET got ==
                 IF requests[un[idx]].arrival_time <= window_limit
                 THEN Append(picked, idx)
                 ELSE IF Len(picked) < limit THEN Append(picked, idx) ELSE picked
         IN IF Len(got) >= limit THEN got
            ELSE CandidateLoop(un, idx + 1, got, window_limit, limit)

\* a batch of the requests inside the window only, without the cap
WindowOnly(un, hor, limit) ==
    SelectSeq([i \in 1..Len(un) |-> i],
              LAMBDA i : requests[un[i]].arrival_time
                           <= requests[un[1]].arrival_time + hor)

\* a batch of the requests inside the window, cut at the cap
WindowCapped(un, hor, limit) ==
    SubSeq(WindowOnly(un, hor, limit), 1,
           Min(limit, Len(WindowOnly(un, hor, limit))))

\* a batch sliced from the wrong end of unassigned
BatchFromEnd(un, hor, limit) ==
    [i \in 1..Min(limit, Len(un)) |-> Len(un) - Min(limit, Len(un)) + i]

CandidateIndices(un, hor, limit) ==
    LET earliest_arrival == requests[un[1]].arrival_time
        window_limit == earliest_arrival + hor
        looped == CandidateLoop(un, 1, <<>>, window_limit, limit)
    IN IF looped = <<>>
       THEN [i \in 1..Min(limit, Len(un)) |-> i]
       ELSE looped

\* the option list of an estimator that answers None for every pair
NoOptions(un, cand, pl) == <<>>

\* candidate_options: one tuple per (candidate, elevator), in loop order
CandidateOption(estimate, idx, elev, elev_idx) ==
    [cost |-> estimate.cost, finish_time |-> estimate.finish_time,
     passenger_time |-> estimate.passenger_time,
     idx |-> idx, elevator_id |-> elev, elev_idx |-> elev_idx]

CandidateOptions(un, cand, pl) ==
    [m \in 1..(Len(cand) * Len(elevators)) |->
        CandidateOption(
            _estimate_incremental_cost(
                pl[elevators[((m - 1) % Len(elevators)) + 1]],
                un[cand[((m - 1) \div Len(elevators)) + 1]]),
            cand[((m - 1) \div Len(elevators)) + 1],
            elevators[((m - 1) % Len(elevators)) + 1],
            (m - 1) % Len(elevators))]

\* the filters with the finish time ahead of the cost
TiedFinishFirst(options) ==
    LET min_finish == MinOf({options[i].finish_time : i \in DOMAIN options})
        best_finish_options ==
            SelectSeq(options, LAMBDA opt : opt.finish_time <= min_finish + CostEps)
        min_cost ==
            MinOf({best_finish_options[i].cost : i \in DOMAIN best_finish_options})
    IN SelectSeq(best_finish_options, LAMBDA opt : opt.cost <= min_cost + CostEps)

\* the three filters and the cursor tie-break
TiedOptions(options) ==
    LET min_cost == MinOf({options[i].cost : i \in DOMAIN options})
        best_cost_options ==
            SelectSeq(options, LAMBDA opt : opt.cost <= min_cost + CostEps)
        min_finish ==
            MinOf({best_cost_options[i].finish_time : i \in DOMAIN best_cost_options})
        best_finish_options ==
            SelectSeq(best_cost_options,
                      LAMBDA opt : opt.finish_time <= min_finish + CostEps)
        min_passenger ==
            MinOf({best_finish_options[i].passenger_time :
                     i \in DOMAIN best_finish_options})
    IN SelectSeq(best_finish_options,
                 LAMBDA opt : opt.passenger_time <= min_passenger + CostEps)

SelectedOption(tied_options, cursor) ==
    LET n == Len(elevators)
    IN tied_options[PyMinIndex([i \in DOMAIN tied_options |->
           <<(tied_options[i].elev_idx - cursor) % n, tied_options[i].elev_idx>>])]

\* an assignment that lands in every queue
ApplyToAll(e, r) ==
    /\ queue' = [x \in DOMAIN queue |-> Append(queue[x], r)]
    /\ served_requests' = [x \in DOMAIN served_requests |->
                              Append(served_requests[x], r)]

\* _apply_assignment
ApplyAssignment(e, r) ==
    /\ queue' = [queue EXCEPT ![e] = Append(@, r)]
    /\ served_requests' = [served_requests EXCEPT ![e] = Append(@, r)]

\* lines 48-51: the module's globals stand in for the arguments left out
HorizonFor(window) ==
    IF window = None THEN MPC_LOOKAHEAD_WINDOW ELSE window[1]

BatchLimitFor(batch, num_elevators) ==
    LET given == IF batch = None THEN MPC_MAX_BATCH ELSE batch[1]
    IN IF given <= 0 THEN Max(num_elevators * 3, 1) ELSE given

\* when MpcBegin can run
CanMpcBegin ==
    /\ phase = "call"
    /\ policy = "mpc"

MpcBegin ==
    /\ CanMpcBegin
    /\ IF elevators = <<>>
       THEN /\ phase' = "assigned"
            /\ UNCHANGED <<elevVars, mpcVars>>
       ELSE /\ horizon' = HorizonFor(lookahead_window)
            /\ batch_limit' = BatchLimitFor(max_batch, Len(elevators))
            /\ queue' = [e \in ElevIds |-> <<>>]
            /\ served_requests' = [e \in ElevIds |-> <<>>]
            /\ UNCHANGED <<floor, initial_floor>>
            /\ IF requests = <<>>
               THEN /\ phase' = "assigned"
                    /\ UNCHANGED <<unassigned, plans, tie_cursor, candidate_indices>>
               ELSE /\ unassigned' = SortedByArrival([i \in DOMAIN requests |-> i])
                    /\ plans' = [e \in ElevIds |-> [floor |-> floor[e], time |-> 0]]
                    /\ tie_cursor' = 0
                    /\ candidate_indices' = <<>>
                    /\ phase' = "mpc"
    /\ UNCHANGED <<hostVars, stampVars, greedyVars, simVars>>

\* lines 95-111: no option could be costed, take the least-busy elevator
MpcFallback(idx, target_index, estimate) ==
    /\ unassigned' = RemoveAt(unassigned, idx)
    /\ ApplyAssignment(elevators[target_index], unassigned[idx])
    /\ plans' = [plans EXCEPT ![elevators[target_index]] =
                   [floor |-> requests[unassigned[idx]].destination,
                    time |-> estimate.finish_time]]
    /\ tie_cursor' = ((target_index - 1) + 1) % Len(elevators)

LeastBusyIndex ==
    PyMinIndex([i \in DOMAIN elevators |-> <<plans[elevators[i]].time>>])

\* a commit that advances the projected time and leaves the projected floor
MpcCommitTimeOnly(selected_option, tie_used) ==
    /\ unassigned' = RemoveAt(unassigned, selected_option.idx)
    /\ ApplyAssignment(selected_option.elevator_id, unassigned[selected_option.idx])
    /\ plans' = [plans EXCEPT ![selected_option.elevator_id] =
                   [floor |-> @.floor, time |-> selected_option.finish_time]]
    /\ tie_cursor' = IF tie_used
                     THEN (selected_option.elev_idx + 1) % Len(elevators)
                     ELSE tie_cursor

\* lines 128-139: commit the selected option
MpcCommit(selected_option, tie_used) ==
    /\ unassigned' = RemoveAt(unassigned, selected_option.idx)
    /\ ApplyAssignment(selected_option.elevator_id, unassigned[selected_option.idx])
    /\ plans' = [plans EXCEPT ![selected_option.elevator_id] =
                   [floor |-> requests[unassigned[selected_option.idx]].destination,
                    time |-> selected_option.finish_time]]
    /\ tie_cursor' = IF tie_used
                     THEN (selected_option.elev_idx + 1) % Len(elevators)
                     ELSE tie_cursor

MpcSelect(tied_options) ==
    \E selected_option \in {SelectedOption(tied_options, tie_cursor)} :
        MpcCommit(selected_option, Len(tied_options) > 1)

MpcChoose(cand, options) ==
    /\ candidate_indices' = cand
    /\ IF options = <<>>
       THEN \E target_index \in {LeastBusyIndex} :
              \E estimate \in {_estimate_incremental_cost(
                                   plans[elevators[target_index]],
                                   unassigned[cand[1]])} :
                  MpcFallback(cand[1], target_index, estimate)
       ELSE \E tied_options \in {TiedOptions(options)} : MpcSelect(tied_options)

MpcBatch(cand) ==
    \E options \in {CandidateOptions(unassigned, cand, plans)} :
        MpcChoose(cand, options)

\* when MpcIterate can run
CanMpcIterate ==
    /\ phase = "mpc"
    /\ unassigned # <<>>

\* one pass of the while loop over unassigned
MpcIterate ==
    /\ CanMpcIterate
    /\ \E cand \in {CandidateIndices(unassigned, horizon, batch_limit)} :
          MpcBatch(cand)
    /\ UNCHANGED <<hostVars, phase, floor, initial_floor, stampVars, greedyVars,
                   horizon, batch_limit, simVars>>

\* when MpcEnd can run
CanMpcEnd ==
    /\ phase = "mpc"
    /\ unassigned = <<>>

MpcEnd ==
    /\ CanMpcEnd
    /\ phase' = "assigned"
    /\ UNCHANGED <<hostVars, elevVars, stampVars, greedyVars, mpcVars, simVars>>

(***************************************************************************)
(* milp_scheduler.py: assign_requests_milp.  The solver is outside the     *)
(* program: whether gurobipy imports, the status model.optimize() ends in, *)
(* whether a solution is held at the time limit and which assignment it is *)
(* are taken as any of the values the solver can give.  elevator_ids is    *)
(* range(1, ELEVATOR_COUNT + 1); the call is modelled for a list of        *)
(* ELEVATOR_COUNT elevators, as main builds it.                            *)
(***************************************************************************)
\* the requests inside the simulated horizon, in list order
InHorizon ==
    LET horizon_steps == SIM_TIME_HORIZON \div TimeStep
        max_sim_time == horizon_steps * TimeStep
    IN SelectSeq([i \in DOMAIN requests |-> i],
                 LAMBDA r : requests[r].arrival_time <= max_sim_time)

\* for e in elevators: e.queue = []
ClearedQueues == [e \in DOMAIN queue |-> <<>>]

\* model.status in [GRB.OPTIMAL, GRB.TIME_LIMIT]
Solved(st) == st \in {"OPTIMAL", "TIME_LIMIT"}

\* lines 244-246: every request of in_horizon_requests appended, in order,
\* to the queue of the elevator the solution gives it
RECURSIVE WriteQueues(_, _, _)
WriteQueues(q, reqs, assignment) ==
    IF reqs = <<>> THEN q
    ELSE WriteQueues([q EXCEPT ![elevators[assignment[Head(reqs)]]] =
                         Append(@, Head(reqs))],
                     Tail(reqs), assignment)

\* when MilpBegin can run
CanMilpBegin ==
    /\ phase = "call"
    /\ policy = "milp"

\* lines 24-47: the import guard and the two empty cases
MilpBegin ==
    /\ CanMilpBegin
    /\ \E available \in BOOLEAN :
          IF ~available
          THEN /\ queue' = ClearedQueues
               /\ status' = Some("UNAVAILABLE")
               /\ milp_result' = Some("False")
               /\ phase' = "milp_done"
          ELSE IF requests = <<>> \/ InHorizon = <<>>
          THEN /\ queue' = ClearedQueues
               /\ milp_result' = Some("True")
               /\ phase' = "milp_done"
               /\ UNCHANGED status
          ELSE /\ phase' = "milp_model"
               /\ UNCHANGED <<queue, status, milp_result>>
    /\ UNCHANGED <<inputVars, predVars, doorVars, objective,
                   gridVars, incumbent, floor, served_requests,
                   initial_floor, stampVars, greedyVars, mpcVars, simVars>>

\* when MilpOptimize can run
CanMilpOptimize ==
    /\ phase = "milp_model"

\* lines 49-224: the model is built and model.optimize() comes back
MilpOptimize ==
    /\ CanMilpOptimize
    /\ \E st \in {"OPTIMAL", "TIME_LIMIT", "INFEASIBLE"}, found \in BOOLEAN :
          /\ st = "OPTIMAL" => found
          /\ st = "INFEASIBLE" => ~found
          /\ status' = Some(st)
          /\ incumbent' = found
    /\ phase' = "milp_status"
    /\ UNCHANGED <<inputVars, predVars, doorVars, objective,
                   gridVars, milp_result, elevVars, stampVars,
                   greedyVars, mpcVars, simVars>>

\* when MilpWrite can run
CanMilpWrite ==
    /\ phase = "milp_status"

\* lines 226-248: the status test, then the queues written from the
\* solution; reading the value of a variable raises when there is none
MilpWrite ==
    /\ CanMilpWrite
    /\ IF ~Solved(status[1])
       THEN /\ queue' = ClearedQueues
            /\ milp_result' = Some("False")
       ELSE IF ~incumbent
       THEN /\ queue' = ClearedQueues
            /\ milp_result' = Some("raised")
       ELSE \E assignment \in [ToSet(InHorizon) -> DOMAIN elevators] :
               /\ queue' = WriteQueues(ClearedQueues, InHorizon, assignment)
               /\ milp_result' = Some("True")
    /\ phase' = "milp_done"
    /\ UNCHANGED <<inputVars, predVars, doorVars, objective,
                   gridVars, status, incumbent, floor,
                   served_requests, initial_floor, stampVars, greedyVars,
                   mpcVars, simVars>>

(***************************************************************************)
(* grid_search_penalty.py: main hands the combinations of its grid to the  *)
(* processes of a multiprocessing pool; each process has its own copy of   *)
(* every module.  _set_mpc_params writes the attributes of models.config   *)
(* and of the package scheduler.mpc_scheduler; the assign_requests_mpc     *)
(* that _simulate_week_totals runs is main.assign_requests_mpc, imported   *)
(* from the module mpc_scheduler, and is called by _run_strategy without   *)
(* keyword arguments.                                                      *)
(***************************************************************************)
Workers == 1..GridWorkers

\* itertools.product(lookahead_windows, max_batches)
Combos == [window : GridWindows, batch : GridBatches]

\* when PoolDispatch can run
CanPoolDispatch ==
    /\ pool # {}
    /\ \E w \in Workers : worker_pc[w] = "idle"

\* pool.imap_unordered(_worker, combos): an idle process takes a combination
PoolDispatch ==
    /\ CanPoolDispatch
    /\ \E w \in Workers, combo \in pool :
          /\ worker_pc[w] = "idle"
          /\ pool' = pool \ {combo}
          /\ worker_combo' = [worker_combo EXCEPT ![w] = Some(combo)]
          /\ used_params' = [used_params EXCEPT ![w] = None]
          /\ worker_pc' = [worker_pc EXCEPT ![w] = "set"]
    /\ UNCHANGED <<inputVars, predVars, doorVars, objective,
                   milpVars, cfg_params, package_params, phase,
                   elevVars, stampVars, greedyVars, mpcVars, simVars>>

\* when WorkerSetParams can run
CanWorkerSetParams ==
    /\ \E w \in Workers : worker_pc[w] = "set"

\* _worker line 87, _set_mpc_params
WorkerSetParams ==
    /\ CanWorkerSetParams
    /\ \E w \in Workers :
          /\ worker_pc[w] = "set"
          /\ cfg_params' = [cfg_params EXCEPT ![w] = worker_combo[w][1]]
          /\ package_params' = [package_params EXCEPT ![w] = worker_combo[w][1]]
          /\ worker_pc' = [worker_pc EXCEPT ![w] = "simulate"]
    /\ UNCHANGED <<inputVars, predVars, doorVars, objective,
                   milpVars, pool, worker_combo, used_params, phase,
                   elevVars, stampVars, greedyVars, mpcVars, simVars>>

\* when WorkerSimulate can run
CanWorkerSimulate ==
    /\ \E w \in Workers : worker_pc[w] = "simulate"

\* _worker line 88: _simulate_week_totals runs _run_strategy, which calls
\* assign_requests_mpc(requests_copy, elevators)
WorkerSimulate ==
    /\ CanWorkerSimulate
    /\ \E w \in Workers :
          /\ worker_pc[w] = "simulate"
          /\ used_params' =
               [used_params EXCEPT ![w] =
                  Some([horizon |-> HorizonFor(None),
                        batch_limit |-> BatchLimitFor(None, ELEVATOR_COUNT)])]
          /\ worker_pc' = [worker_pc EXCEPT ![w] = "return"]
    /\ UNCHANGED <<inputVars, predVars, doorVars, objective,
                   milpVars, pool, worker_combo, cfg_params,
                   package_params, phase, elevVars, stampVars, greedyVars,
                   mpcVars, simVars>>

\* when WorkerReturn can run
CanWorkerReturn ==
    /\ \E w \in Workers : worker_pc[w] = "return"

\* _worker lines 89-103: the result row goes back to the pool
WorkerReturn ==
    /\ CanWorkerReturn
    /\ \E w \in Workers :
          /\ worker_pc[w] = "return"
          /\ worker_pc' = [worker_pc EXCEPT ![w] = "idle"]
    /\ UNCHANGED <<inputVars, predVars, doorVars, objective,
                   milpVars, pool, worker_combo, cfg_params,
                   package_params, used_params, phase, elevVars, stampVars,
                   greedyVars, mpcVars, simVars>>

(***************************************************************************)
(* models/baseline_scheduler.py: simulate_dispatch.  The closures read and *)
(* write the enclosing function's locals; here they map a record of those  *)
(* locals to the record after the call.                                    *)
(***************************************************************************)
Locals ==
    [current_floor |-> current_floor, current_time |-> current_time,
     pending |-> pending, waiting |-> waiting, onboard |-> onboard,
     service_log |-> service_log, total_time |-> total_time,
     total_energy |-> total_energy, emptyload_energy |-> emptyload_energy,
     pickup_time |-> pickup_time, dropoff_time |-> dropoff_time,
     origin_arrival_time |-> origin_arrival_time,
     destination_arrival_time |-> destination_arrival_time]

\* a write-back that leaves destination_arrival_time out
SetLocalsWithoutArrival(L) ==
    /\ current_floor' = L.current_floor
    /\ current_time' = L.current_time
    /\ pending' = L.pending
    /\ waiting' = L.waiting
    /\ onboard' = L.onboard
    /\ service_log' = L.service_log
    /\ total_time' = L.total_time
    /\ total_energy' = L.total_energy
    /\ emptyload_energy' = L.emptyload_energy
    /\ pickup_time' = L.pickup_time
    /\ dropoff_time' = L.dropoff_time
    /\ origin_arrival_time' = L.origin_arrival_time
    /\ destination_arrival_time' = destination_arrival_time

SetLocals(L) ==
    /\ current_floor' = L.current_floor
    /\ current_time' = L.current_time
    /\ pending' = L.pending
    /\ waiting' = L.waiting
    /\ onboard' = L.onboard
    /\ service_log' = L.service_log
    /\ total_time' = L.total_time
    /\ total_energy' = L.total_energy
    /\ emptyload_energy' = L.emptyload_energy
    /\ pickup_time' = L.pickup_time
    /\ dropoff_time' = L.dropoff_time
    /\ origin_arrival_time' = L.origin_arrival_time
    /\ destination_arrival_time' = L.destination_arrival_time

RECURSIVE PullLoop(_, _, _)
PullLoop(pend, wait, now) ==
    IF pend # <<>> /\ requests[Head(pend)].arrival_time <= now
    THEN PullLoop(Tail(pend), Append(wait, Head(pend)), now)
    ELSE [pending |-> pend, waiting |-> wait]

\* a pull that moves one arrived request at most
PullOne(L) ==
    IF L.pending # <<>> /\ requests[Head(L.pending)].arrival_time <= L.current_time
    THEN [L EXCEPT !.pending = Tail(@), !.waiting = Append(@, Head(L.pending))]
    ELSE L

\* lines 76-80
pull_ready_requests(L) ==
    LET moved == PullLoop(L.pending, L.waiting, L.current_time)
    IN [L EXCEPT !.pending = moved.pending, !.waiting = moved.waiting]

current_load(L) == SumLoad(L.onboard)

\* an accumulator that takes every segment
EmptyLoadAlways(emptyload, load, energy) == emptyload + energy

\* baseline_scheduler.py lines 104-105; simulate_baseline keeps no such sum
EmptyLoad(emptyload, load, energy) ==
    IF simulator # "simulate_baseline" /\ load <= MassTol
    THEN emptyload + energy
    ELSE emptyload

travel_between(L, start_floor, end_floor) ==
    IF start_floor = end_floor THEN L
    ELSE LET load == current_load(L)
             travel_duration == travel_time(load, start_floor, end_floor)
             dir == IF end_floor > start_floor THEN "up" ELSE "down"
             distance == Abs(end_floor - start_floor) * BUILDING_FLOOR_HEIGHT
             energy_motion == segment_energy(load, distance, dir)
             energy_idle == standby_energy(travel_duration)
         IN pull_ready_requests(
              [L EXCEPT !.current_time = @ + travel_duration,
                        !.total_time = @ + travel_duration,
                        !.total_energy = @ + energy_motion + energy_idle,
                        !.current_floor = end_floor,
                        !.emptyload_energy =
                            EmptyLoad(@, load, energy_motion + energy_idle)])

\* a direction taken from the ground floor, whatever the reference floor
DirectionFromLobby(r, reference_floor) ==
    IF requests[r].destination > InitialFloor THEN "up"
    ELSE IF requests[r].destination < InitialFloor THEN "down"
    ELSE "idle"

\* lines 109-114: the direction of a destination seen from a floor
request_direction(r, reference_floor) ==
    IF requests[r].destination > reference_floor THEN "up"
    ELSE IF requests[r].destination < reference_floor THEN "down"
    ELSE "idle"

\* an admission without the capacity test
AdmitAll(boarders, remaining_capacity) == boarders

\* an admission that closes the doors at the first refusal
RECURSIVE AdmittedUntilRefusal(_, _)
AdmittedUntilRefusal(boarders, remaining_capacity) ==
    IF boarders = <<>> THEN <<>>
    ELSE IF requests[Head(boarders)].load <= remaining_capacity + MassTol
         THEN <<Head(boarders)>>
                \o AdmittedUntilRefusal(
                      Tail(boarders),
                      remaining_capacity - requests[Head(boarders)].load)
         ELSE <<>>

\* the capacity loop of process_stop: the boarders admitted, in order
RECURSIVE Admitted(_, _)
Admitted(boarders, remaining_capacity) ==
    IF boarders = <<>> THEN <<>>
    ELSE LET req == Head(boarders)
         IN IF requests[req].load <= remaining_capacity + MassTol
            THEN <<req>> \o Admitted(Tail(boarders),
                                     remaining_capacity - requests[req].load)
            ELSE Admitted(Tail(boarders), remaining_capacity)

\* a service log that records the first boarder of a stop only
LogFirstBoarder(log, boarders) ==
    IF boarders = <<>> \/ Contains(log, Head(boarders)) THEN log
    ELSE Append(log, Head(boarders))

\* if req not in service_log: service_log.append(req)
LogBoarders(log, boarders) ==
    log \o SelectSeq(boarders, LAMBDA r : ~Contains(log, r))

\* a stop that takes every boarder into the car
NobodyArrivingAtOnce(L, B) == {}

\* lines 172-177: the boarders whose destination is the floor they board at
ArrivingAtOnce(L, B) == {r \in B : requests[r].destination = L.current_floor}

\* baseline_scheduler.py lines 147-151: a dwell only if somebody boards or
\* leaves; baseline.py line 187: a dwell whenever process_stop goes on
Dwell(boarders, leavers, boarding_weight, leaving_weight) ==
    IF simulator = "simulate_baseline"
    THEN hold_time(boarding_weight, leaving_weight)
    ELSE IF boarders # <<>> \/ leavers # <<>>
         THEN hold_time(boarding_weight, leaving_weight)
         ELSE 0

process_stop(L, candidates, leavers) ==
    IF candidates = <<>> /\ leavers = <<>> THEN L
    ELSE
    LET leaving_weight ==
            SumLoad(SelectSeq(leavers, LAMBDA r : Contains(L.onboard, r)))
        post_leave_load == Max(0, current_load(L) - leaving_weight)
        remaining_capacity == Max(0, ELEVATOR_CAPACITY - post_leave_load)
        boarders == IF candidates # <<>>
                    THEN Admitted(candidates, remaining_capacity)
                    ELSE candidates
        arrive_time == L.current_time
        boarding_weight == SumLoad(boarders)
        dwell == Dwell(boarders, leavers, boarding_weight, leaving_weight)
        now == L.current_time + dwell
        B == ToSet(boarders)
        V == ToSet(leavers)
        here == ArrivingAtOnce(L, B)
    IN pull_ready_requests(
         [L EXCEPT
            !.current_time = now,
            !.total_time = @ + dwell,
            !.total_energy = @ + standby_energy(dwell),
            !.onboard =
                SelectSeq(@, LAMBDA r : r \notin V)
                  \o SelectSeq(boarders, LAMBDA r : r \notin here),
            !.waiting = SelectSeq(@, LAMBDA r : r \notin B),
            !.service_log = LogBoarders(@, boarders),
            !.destination_arrival_time =
                [r \in DOMAIN @ |->
                   IF r \in V \cup here THEN Some(arrive_time) ELSE @[r]],
            !.dropoff_time =
                [r \in DOMAIN @ |-> IF r \in V \cup here THEN Some(now) ELSE @[r]],
            !.origin_arrival_time =
                [r \in DOMAIN @ |-> IF r \in B THEN Some(arrive_time) ELSE @[r]],
            !.pickup_time =
                [r \in DOMAIN @ |-> IF r \in B THEN Some(now) ELSE @[r]]])

\* ready_here: the waiting requests at the car's floor that have arrived
ReadyHere(L) ==
    SelectSeq(L.waiting,
              LAMBDA r : /\ requests[r].origin = L.current_floor
                         /\ requests[r].arrival_time <= L.current_time)

\* boarders taken whatever their direction
BoardEveryone(L, dir) == ReadyHere(L)

\* boarders: ready_here filtered by direction
Boarders(L, dir) ==
    SelectSeq(ReadyHere(L),
              LAMBDA r : request_direction(r, L.current_floor) \in {dir, "idle"})

\* a sweep that stops only where a passenger gets off
NextFloorOnboardOnly(L, dir) ==
    LET f == L.current_floor
        ahead == {x \in {requests[r].destination : r \in ToSet(L.onboard)} :
                    IF dir = "up" THEN x > f ELSE x < f}
    IN IF ahead = {} THEN None
       ELSE IF dir = "up" THEN Some(MinOf(ahead)) ELSE Some(MaxOf(ahead))

\* a sweep that runs to the farthest wanted floor first
FarthestFloor(L, dir) ==
    LET f == L.current_floor
        wanted == {requests[r].destination : r \in ToSet(L.onboard)}
        ahead == {x \in wanted : IF dir = "up" THEN x > f ELSE x < f}
    IN IF ahead = {} THEN None
       ELSE IF dir = "up" THEN Some(MaxOf(ahead)) ELSE Some(MinOf(ahead))

\* next_floor of the serve-direction loop, <<>> for None
NextFloor(L, dir) ==
    LET f == L.current_floor
        ahead(x) == IF dir = "up" THEN x > f ELSE x < f
        wanted == IF dir = "up" THEN "up" ELSE "down"
        candidate_floors ==
            {requests[r].destination : r \in {q \in ToSet(L.onboard) :
                                               ahead(requests[q].destination)}}
              \cup
            {requests[r].origin : r \in {q \in ToSet(L.waiting) :
                 /\ requests[q].arrival_time <= L.current_time
                 /\ ahead(requests[q].origin)
                 /\ request_direction(q, requests[q].origin) = wanted}}
    IN IF candidate_floors = {} THEN None
       ELSE IF dir = "up" THEN Some(MinOf(candidate_floors))
       ELSE Some(MaxOf(candidate_floors))

\* when SimBegin can run
CanSimBegin ==
    /\ phase = "assigned"

SimBegin ==
    /\ CanSimBegin
    /\ phase' = "simulate"
    /\ total_time' = 0
    /\ total_energy' = 0
    /\ emptyload_energy' = 0
    /\ k' = 1
    /\ pc' = "elev"
    /\ UNCHANGED <<hostVars, elevVars, stampVars, greedyVars, mpcVars,
                   current_floor, current_time, pending, waiting, onboard,
                   service_log, direction, all_served>>

\* a clock that runs on from the elevator simulated before
KeepClock(previous) == previous

\* line 59: current_time = 0.0
StartClock(previous) == 0

\* when ElevBegin can run
CanElevBegin ==
    /\ phase = "simulate"
    /\ pc = "elev"
    /\ k <= Len(elevators)

ElevBegin ==
    /\ CanElevBegin
    /\ \E elev \in {elevators[k]}, sorted \in {SortedByArrival(queue[elevators[k]])} :
          LET mine == ToSet(sorted)
              reset(stamp) == [r \in DOMAIN stamp |-> IF r \in mine THEN None ELSE stamp[r]]
          IN
          /\ current_floor' = floor[elev]
          /\ current_time' = StartClock(current_time)
          /\ initial_floor' = [initial_floor EXCEPT ![elev] = Some(floor[elev])]
          /\ pending' = sorted
          /\ pickup_time' = reset(pickup_time)
          /\ dropoff_time' = reset(dropoff_time)
          /\ origin_arrival_time' = reset(origin_arrival_time)
          /\ destination_arrival_time' = reset(destination_arrival_time)
    /\ waiting' = <<>>
    /\ onboard' = <<>>
    /\ service_log' = <<>>
    /\ pc' = "top"
    /\ UNCHANGED <<hostVars, phase, floor, queue, served_requests, greedyVars,
                   mpcVars, k, direction, total_time, total_energy,
                   emptyload_energy, all_served>>

\* dirs: the directions of the passengers, "idle" left out
OnboardDirections(L) ==
    {request_direction(r, L.current_floor) : r \in ToSet(L.onboard)} \ {"idle"}

\* the locals after the pull_ready_requests() that opens a loop iteration
AtTop == pull_ready_requests(Locals)

\* when FastForward can run
CanFastForward ==
    /\ phase = "simulate"
    /\ pc = "top"
    /\ AtTop.waiting = <<>>
    /\ AtTop.onboard = <<>>
    /\ AtTop.pending # <<>>

\* a jump to the next arrival that counts the gap as running time
NextArrivalTimed(L) ==
    LET next_req == Head(L.pending)
        arrival == requests[next_req].arrival_time
        late == arrival > L.current_time
        idle_duration == arrival - L.current_time
    IN pull_ready_requests(
         [L EXCEPT !.pending = Tail(@),
                   !.total_energy =
                       IF late THEN @ + standby_energy(idle_duration) ELSE @,
                   !.total_time = IF late THEN @ + idle_duration ELSE @,
                   !.current_time = IF late THEN arrival ELSE @,
                   !.waiting = Append(@, next_req)])

\* lines 188-195: the next pending request, the clock moved to its arrival
NextArrival(L) ==
    LET next_req == Head(L.pending)
        arrival == requests[next_req].arrival_time
        late == arrival > L.current_time
        idle_duration == arrival - L.current_time
    IN pull_ready_requests(
         [L EXCEPT !.pending = Tail(@),
                   !.total_energy =
                       IF late THEN @ + standby_energy(idle_duration) ELSE @,
                   !.current_time = IF late THEN arrival ELSE @,
                   !.waiting = Append(@, next_req)])

\* lines 185-195: nothing to serve yet, jump to the next arrival
FastForward ==
    /\ CanFastForward
    /\ \E after \in {NextArrival(AtTop)} : SetLocals(after)
    /\ UNCHANGED <<hostVars, phase, elevVars, greedyVars, mpcVars, k, pc,
                   direction, all_served>>

\* lines 201-204: the waiting request an empty car goes to
target_req(L) ==
    L.waiting[PyMinIndex([i \in DOMAIN L.waiting |->
        <<requests[L.waiting[i]].arrival_time,
          Abs(requests[L.waiting[i]].origin - L.current_floor)>>])]

\* a stop that takes its direction from the first request ready at the floor
FirstReady(L, ready_here) == ready_here[1]

\* lines 219-222: the request whose destination gives the direction
primary(L, ready_here) ==
    ready_here[PyMinIndex([i \in DOMAIN ready_here |->
        <<requests[ready_here[i]].arrival_time,
          Abs(requests[ready_here[i]].destination - L.current_floor)>>])]

\* when Dispatch can run
CanDispatch ==
    /\ phase = "simulate"
    /\ pc = "top"
    /\ AtTop.waiting # <<>> \/ AtTop.onboard # <<>>

\* lines 201-207 (car empty: go to the chosen waiting request) and lines
\* 238-249 (car not empty: take the direction of the passengers)
Dispatch ==
    /\ CanDispatch
    /\ \E L \in {AtTop} :
          IF L.onboard = <<>>
          THEN /\ \E after \in {travel_between(L, L.current_floor,
                                                requests[target_req(L)].origin)} :
                     SetLocals(after)
               /\ pc' = "idle_stop"
               /\ UNCHANGED direction
          ELSE \* dirs.pop(): any element of the set
               \E d \in (IF OnboardDirections(L) = {} THEN {"idle"}
                          ELSE OnboardDirections(L)) :
                   /\ direction' = d
                   /\ IF d = "idle"
                      THEN /\ \E after \in {process_stop(L, <<>>, L.onboard)} :
                                SetLocals(after)
                           /\ pc' = "top"
                      ELSE /\ SetLocals(L)
                           /\ pc' = "sweep"
    /\ UNCHANGED <<hostVars, phase, elevVars, greedyVars, mpcVars, k, all_served>>

\* when IdleStop can run
CanIdleStop ==
    /\ phase = "simulate"
    /\ pc = "idle_stop"

\* lines 209-236: the stop at the pickup floor
IdleStop ==
    /\ CanIdleStop
    /\ \E L \in {Locals}, ready_here \in {ReadyHere(Locals)} :
          IF ready_here = <<>>
          THEN /\ pc' = "top"
               /\ UNCHANGED <<stampVars, current_floor, current_time, pending,
                              waiting, onboard, service_log, direction,
                              total_time, total_energy, emptyload_energy>>
          ELSE LET dir == request_direction(primary(L, ready_here),
                                            L.current_floor)
               IN \E after \in {process_stop(L, Boarders(L, dir), <<>>)} :
                     /\ direction' = dir
                     /\ SetLocals(after)
                     /\ pc' = IF dir = "idle" \/ after.onboard = <<>>
                              THEN "top" ELSE "sweep"
    /\ UNCHANGED <<hostVars, phase, elevVars, greedyVars, mpcVars, k, all_served>>

\* when SweepTravel can run
CanSweepTravel ==
    /\ phase = "simulate"
    /\ pc = "sweep"

\* lines 252-291: the next floor of the sweep, and the trip to it
SweepTravel ==
    /\ CanSweepTravel
    /\ \E L \in {pull_ready_requests(Locals)} :
          \E next_floor \in {NextFloor(L, direction)} :
             IF next_floor = None
             THEN /\ SetLocals(L)
                  /\ pc' = "top"
             ELSE /\ \E after \in {travel_between(L, L.current_floor,
                                                   next_floor[1])} :
                        SetLocals(after)
                  /\ pc' = "sweep_stop"
    /\ UNCHANGED <<hostVars, phase, elevVars, greedyVars, mpcVars, k,
                   direction, all_served>>

\* when SweepStop can run
CanSweepStop ==
    /\ phase = "simulate"
    /\ pc = "sweep_stop"

\* lines 293-308: the stop at that floor
SweepStop ==
    /\ CanSweepStop
    /\ \E L \in {Locals} :
          LET leavers == SelectSeq(L.onboard,
                                   LAMBDA r : requests[r].destination = L.current_floor)
          IN \E after \in {process_stop(L, Boarders(L, direction), leavers)} :
                /\ SetLocals(after)
                /\ pc' = IF after.onboard = <<>> THEN "top" ELSE "sweep"
    /\ UNCHANGED <<hostVars, phase, elevVars, greedyVars, mpcVars, k,
                   direction, all_served>>

\* when ElevEnd can run
CanElevEnd ==
    /\ phase = "simulate"
    /\ pc = "top"
    /\ pending = <<>>
    /\ waiting = <<>>
    /\ onboard = <<>>

\* lines 312-315: the while loop is over for this elevator
ElevEnd ==
    /\ CanElevEnd
    /\ LET elev == elevators[k]
       IN /\ floor' = [floor EXCEPT ![elev] = current_floor]
          /\ queue' = [queue EXCEPT ![elev] = <<>>]
          /\ served_requests' = [served_requests EXCEPT ![elev] = service_log]
    /\ k' = k + 1
    /\ pc' = "elev"
    /\ UNCHANGED <<hostVars, phase, initial_floor, stampVars, greedyVars,
                   mpcVars, current_floor, current_time, pending, waiting,
                   onboard, service_log, direction, total_time, total_energy,
                   emptyload_energy, all_served>>

RECURSIVE Concat(_, _)
Concat(f, ids) ==
    IF ids = <<>> THEN <<>> ELSE f[Head(ids)] \o Concat(f, Tail(ids))

\* when Return can run
CanReturn ==
    /\ phase = "simulate"
    /\ pc = "elev"
    /\ k > Len(elevators)

\* lines 317-321
Return ==
    /\ CanReturn
    /\ all_served' = Concat(served_requests, elevators)
    /\ phase' = "returned"
    /\ UNCHANGED <<hostVars, elevVars, stampVars, greedyVars, mpcVars, k, pc,
                   current_floor, current_time, pending, waiting, onboard,
                   service_log, direction, total_time, total_energy,
                   emptyload_energy>>

(***************************************************************************)
(* One run of main._run_strategy: fresh elevators at floor 1, a policy,    *)
(* then the simulator.                                                     *)
(***************************************************************************)
RequestLists ==
    UNION {[1..n -> [origin : Floors, destination : Floors, load : Loads,
                     arrival_time : ArrivalTimes]] : n \in 1..MaxRequests}

\* generate_requests_day returns the requests sorted by arrival time
ArrivalSorted(s) ==
    \A i \in 1..(Len(s) - 1) : s[i].arrival_time <= s[i + 1].arrival_time

InitAt(reqs, n, floors, queues, at) ==
    /\ requests = [i \in DOMAIN reqs |->
                     [id |-> i, origin |-> reqs[i].origin,
                      destination |-> reqs[i].destination,
                      load |-> reqs[i].load,
                      arrival_time |-> reqs[i].arrival_time]]
    /\ elevators = [i \in 1..n |-> i]
    /\ floor = floors
    /\ queue = queues
    /\ served_requests = [e \in 1..n |-> <<>>]
    /\ initial_floor = [e \in 1..n |-> None]
    /\ pickup_time = [r \in DOMAIN reqs |-> None]
    /\ dropoff_time = [r \in DOMAIN reqs |-> None]
    /\ origin_arrival_time = [r \in DOMAIN reqs |-> None]
    /\ destination_arrival_time = [r \in DOMAIN reqs |-> None]
    /\ phase = at
    /\ todo = <<>>
    /\ forecast_floor = <<>>
    /\ unassigned = <<>>
    /\ plans = <<>>
    /\ tie_cursor = 0
    /\ horizon = 0
    /\ batch_limit = 0
    /\ candidate_indices = <<>>
    /\ k = 0
    /\ pc = "elev"
    /\ current_floor = InitialFloor
    /\ current_time = 0
    /\ pending = <<>>
    /\ waiting = <<>>
    /\ onboard = <<>>
    /\ service_log = <<>>
    /\ direction = "unset"
    /\ total_time = 0
    /\ total_energy = 0
    /\ emptyload_energy = 0
    /\ all_served = <<>>

\* ElevatorState(id=k + 1, floor=1) for every elevator
InitWith(reqs, n, queues, at) ==
    InitAt(reqs, n, [e \in 1..n |-> InitialFloor], queues, at)

\* fresh elevators with empty queues, before the policy is called
InitCore(reqs, n) == InitWith(reqs, n, [e \in 1..n |-> <<>>], "call")

\* assign_requests_milp has not been called
NoSolver ==
    /\ status = None
    /\ incumbent = FALSE
    /\ milp_result = None

\* no grid search is running
NoSweep ==
    /\ pool = {}
    /\ worker_pc = <<>>
    /\ worker_combo = <<>>
    /\ cfg_params = <<>>
    /\ package_params = <<>>
    /\ used_params = <<>>

\* prediction_api._MODEL is None: no destination model was loaded
NoPredictor ==
    /\ predictor = [loaded |-> FALSE, raises |-> FALSE, dist |-> <<>>]
    /\ probe = None
    /\ dest_candidates = None
    /\ expected = None

\* hold_time has not been called on its own
NoDoor ==
    /\ door_weights = None
    /\ door_dwell = None

\* compute_objective has not been called
NotScored == objective = None

InitRun(reqs, n) ==
    /\ InitCore(reqs, n)
    /\ NoSolver
    /\ NoSweep
    /\ NoPredictor
    /\ NoDoor
    /\ NotScored
    /\ simulator = "simulate_dispatch"

Init ==
    \E reqs \in RequestLists, n \in 1..ELEVATOR_COUNT :
        /\ ArrivalSorted(reqs)
        /\ InitRun(reqs, n)
        /\ policy \in {"greedy", "mpc"}
        /\ lookahead_window = None
        /\ max_batch = None

Next ==
    \/ GreedyBegin
    \/ GreedyAssign
    \/ GreedyEnd
    \/ MpcBegin
    \/ MpcIterate
    \/ MpcEnd
    \/ SimBegin
    \/ ElevBegin
    \/ FastForward
    \/ Dispatch
    \/ IdleStop
    \/ SweepTravel
    \/ SweepStop
    \/ ElevEnd
    \/ Return

Spec == Init /\ [][Next]_vars

\* the baseline runs on the lists of at most FairRequests requests; the
\* interpreter always runs the next statement
InitFair ==
    \E reqs \in RequestLists, n \in 1..ELEVATOR_COUNT :
        /\ Len(reqs) <= FairRequests
        /\ ArrivalSorted(reqs)
        /\ InitRun(reqs, n)
        /\ policy = "greedy"
        /\ lookahead_window = None
        /\ max_batch = None

\* the baseline pipeline: assign_requests_greedy, then simulate_dispatch
NextBaseline ==
    \/ GreedyBegin
    \/ GreedyAssign
    \/ GreedyEnd
    \/ SimBegin
    \/ ElevBegin
    \/ FastForward
    \/ Dispatch
    \/ IdleStop
    \/ SweepTravel
    \/ SweepStop
    \/ ElevEnd
    \/ Return

FairSpec == InitFair /\ [][NextBaseline]_vars /\ WF_vars(NextBaseline)

(***************************************************************************)
(* assign_requests_greedy alone, on lists long enough for the distance     *)
(* criterion to decide.  The policy never reads a load.                    *)
(***************************************************************************)
GreedyLists ==
    UNION {[1..n -> [origin : Floors, destination : Floors, load : {2},
                     arrival_time : ArrivalTimes]] : n \in 1..GreedyRequests}

InitGreedy ==
    \E reqs \in GreedyLists, n \in 1..ELEVATOR_COUNT :
        /\ ArrivalSorted(reqs)
        /\ InitRun(reqs, n)
        /\ policy = "greedy"
        /\ lookahead_window = None
        /\ max_batch = None

NextGreedy ==
    \/ GreedyBegin
    \/ GreedyAssign
    \/ GreedyEnd

SpecGreedy == InitGreedy /\ [][NextGreedy]_vars

(***************************************************************************)
(* assign_requests_mpc alone, called with an explicit max_batch.           *)
(***************************************************************************)
InitMpc ==
    \E reqs \in RequestLists, n \in 1..ELEVATOR_COUNT :
        /\ ArrivalSorted(reqs)
        /\ InitRun(reqs, n)
        /\ policy = "mpc"
        /\ lookahead_window = None
        /\ max_batch \in {None} \cup {Some(b) : b \in 0..MaxBatchArg}

NextMpc ==
    \/ MpcBegin
    \/ MpcIterate
    \/ MpcEnd

SpecMpc == InitMpc /\ [][NextMpc]_vars

(***************************************************************************)
(* assign_requests_mpc alone, with its default arguments or max_batch = 1, *)
(* on lists long enough for both elevators to be busy when a request is    *)
(* placed.                                                                 *)
(***************************************************************************)
LongLists ==
    UNION {[1..n -> [origin : Floors, destination : Floors, load : {2},
                     arrival_time : {0, 40}]] : n \in 1..LongRequests}

InitMpcLong ==
    \E reqs \in LongLists, n \in 1..ELEVATOR_COUNT :
        /\ ArrivalSorted(reqs)
        /\ InitRun(reqs, n)
        /\ policy = "mpc"
        /\ lookahead_window = None
        /\ max_batch \in {None, Some(1)}

SpecMpcLong == InitMpcLong /\ [][NextMpc]_vars

(***************************************************************************)
(* The baseline pipeline on lists long enough for a car that already       *)
(* carries a passenger to stop where two more wait.                        *)
(***************************************************************************)
InitBaselineLong ==
    \E reqs \in LongLists, n \in 1..ELEVATOR_COUNT :
        /\ ArrivalSorted(reqs)
        /\ InitRun(reqs, n)
        /\ policy = "greedy"
        /\ lookahead_window = None
        /\ max_batch = None

SpecBaselineLong == InitBaselineLong /\ [][NextBaseline]_vars

(***************************************************************************)
(* assign_requests_milp alone, on the elevators main builds.               *)
(***************************************************************************)
InitMilp ==
    \E reqs \in RequestLists \cup {<<>>} :
        /\ ArrivalSorted(reqs)
        /\ InitCore(reqs, ELEVATOR_COUNT)
        /\ NoSolver
        /\ NoSweep
        /\ NoPredictor
        /\ NoDoor
        /\ NotScored
        /\ simulator = "simulate_dispatch"
        /\ policy = "milp"
        /\ lookahead_window = None
        /\ max_batch = None

NextMilp ==
    \/ MilpBegin
    \/ MilpOptimize
    \/ MilpWrite

SpecMilp == InitMilp /\ [][NextMilp]_vars

(***************************************************************************)
(* The greedy policy and the simulator on the requests the generator       *)
(* makes (origin and destination differ), in a building tall enough for    *)
(* two trips from one floor to differ in both direction and length.        *)
(***************************************************************************)
PickupLists ==
    UNION {[1..n -> {r \in [origin : 1..2, destination : 1..PickupFloors,
                            load : {2}, arrival_time : {0, 40}] :
                       r.origin # r.destination}] : n \in 1..MaxRequests}

InitPickup ==
    \E reqs \in PickupLists :
        /\ ArrivalSorted(reqs)
        /\ InitRun(reqs, 1)
        /\ policy = "greedy"
        /\ lookahead_window = None
        /\ max_batch = None

SpecPickup == InitPickup /\ [][NextBaseline]_vars

(***************************************************************************)
(* One elevator, the greedy policy and the simulator, on lists of the      *)
(* generator's requests long enough for one request to wait ahead of the   *)
(* car and another behind it when a sweep ends.                            *)
(***************************************************************************)
CollectiveLists ==
    UNION {[1..n -> {r \in [origin : 1..(PickupFloors - 1),
                            destination : 1..PickupFloors,
                            load : {2}, arrival_time : {0, 40}] :
                       r.origin # r.destination}] : n \in 1..LongRequests}

InitCollective ==
    \E reqs \in CollectiveLists :
        /\ ArrivalSorted(reqs)
        /\ InitRun(reqs, 1)
        /\ policy = "greedy"
        /\ lookahead_window = None
        /\ max_batch = None

SpecCollective == InitCollective /\ [][NextBaseline]_vars

(***************************************************************************)
(* models/baseline.py: simulate_baseline called on one elevator whose      *)
(* queue holds the requests in the order of the list, all of them within   *)
(* the capacity.  Its loops are those of simulate_dispatch; its            *)
(* process_stop and travel_between differ as Dwell and EmptyLoad say.      *)
(***************************************************************************)
LegacyLists ==
    UNION {[1..n -> [origin : Floors, destination : Floors, load : {2, 3},
                     arrival_time : {0, 40}]] : n \in 1..MaxRequests}

InitLegacy ==
    \E reqs \in LegacyLists :
        /\ ArrivalSorted(reqs)
        /\ InitWith(reqs, 1, [e \in 1..1 |-> [i \in 1..Len(reqs) |-> i]],
                    "assigned")
        /\ NoSolver
        /\ NoSweep
        /\ NoPredictor
        /\ NoDoor
        /\ NotScored
        /\ simulator = "simulate_baseline"
        /\ policy = "baseline"
        /\ lookahead_window = None
        /\ max_batch = None

NextSimulate ==
    \/ SimBegin
    \/ ElevBegin
    \/ FastForward
    \/ Dispatch
    \/ IdleStop
    \/ SweepTravel
    \/ SweepStop
    \/ ElevEnd
    \/ Return

SpecLegacy == InitLegacy /\ [][NextSimulate]_vars

(***************************************************************************)
(* grid_search_penalty.main: the pool and its worker processes, every      *)
(* module freshly imported in each.                                        *)
(***************************************************************************)
InitGrid ==
    /\ InitCore(<<>>, ELEVATOR_COUNT)
    /\ NoSolver
    /\ NoPredictor
    /\ NoDoor
    /\ NotScored
    /\ simulator = "simulate_dispatch"
    /\ policy = "mpc"
    /\ lookahead_window = None
    /\ max_batch = None
    /\ pool = Combos
    /\ worker_pc = [w \in Workers |-> "idle"]
    /\ worker_combo = [w \in Workers |-> None]
    /\ cfg_params = [w \in Workers |->
                       [window |-> MPC_LOOKAHEAD_WINDOW, batch |-> MPC_MAX_BATCH]]
    /\ package_params = [w \in Workers |->
                           [window |-> MPC_LOOKAHEAD_WINDOW, batch |-> MPC_MAX_BATCH]]
    /\ used_params = [w \in Workers |-> None]

NextGrid ==
    \/ PoolDispatch
    \/ WorkerSetParams
    \/ WorkerSimulate
    \/ WorkerReturn

SpecGrid == InitGrid /\ [][NextGrid]_vars

(***************************************************************************)
(* Properties.                                                             *)
(***************************************************************************)
\* the places of request r in the elevators' lists f (queue, served_requests)
Slots(f, r) ==
    {p \in UNION {{<<e, i>> : i \in DOMAIN f[e]} : e \in DOMAIN f} : f[p[1]][p[2]] = r}

AllWithinCapacity == \A r \in ReqIds : requests[r].load <= ELEVATOR_CAPACITY

\* C1: when every load is at most the capacity, a completed run (either
\* policy, then simulate_dispatch) leaves every request exactly once in the
\* served_requests of exactly one elevator, and as many served as given.
C1_Conservation ==
    (phase = "returned" /\ AllWithinCapacity)
        => /\ \A r \in ReqIds : Cardinality(Slots(served_requests, r)) = 1
           /\ Len(all_served) = Len(requests)

\* a completed run in which one elevator served two requests
C1_Witness ==
    /\ phase = "returned"
    /\ AllWithinCapacity
    /\ \E e \in ElevIds : Len(served_requests[e]) = 2

\* C2: every stamped request has arrival_time <= origin_arrival_time <=
\* pickup_time <= dropoff_time and destination_arrival_time <= dropoff_time.
C2_TimestampOrder ==
    \A r \in ReqIds :
        /\ origin_arrival_time[r] # None
             => requests[r].arrival_time <= origin_arrival_time[r][1]
        /\ pickup_time[r] # None
             => /\ origin_arrival_time[r] # None
                /\ origin_arrival_time[r][1] <= pickup_time[r][1]
        /\ dropoff_time[r] # None
             => /\ pickup_time[r] # None
                /\ pickup_time[r][1] <= dropoff_time[r][1]
                /\ destination_arrival_time[r] # None
                /\ destination_arrival_time[r][1] <= dropoff_time[r][1]

\* a served request the car had to travel to, hold the door for and carry
C2_Witness ==
    /\ phase = "returned"
    /\ \E r \in ReqIds :
          /\ dropoff_time[r] # None
          /\ requests[r].arrival_time < origin_arrival_time[r][1]
          /\ origin_arrival_time[r][1] < pickup_time[r][1]
          /\ pickup_time[r][1] < destination_arrival_time[r][1]
          /\ destination_arrival_time[r][1] < dropoff_time[r][1]

\* C3 (as stated): the loads of the requests in onboard never sum to more
\* than ELEVATOR_CAPACITY.
C3_CapacityInvariant == SumLoad(onboard) <= ELEVATOR_CAPACITY

\* C3 (amended): when every load exceeds the admission tolerance, the loads
\* in onboard never sum to more than ELEVATOR_CAPACITY plus that tolerance.
C3_CapacityWithinTolerance ==
    (\A r \in ReqIds : requests[r].load > MassTol)
        => SumLoad(onboard) <= ELEVATOR_CAPACITY + MassTol

\* two passengers aboard, the second admitted on the tolerance
C3_Witness ==
    /\ Len(onboard) = 2
    /\ SumLoad(onboard) = ELEVATOR_CAPACITY + MassTol

\* C4: the main loop of every elevator ends, so the run returns, and the
\* loop is left only with pending, waiting and onboard all empty.
C4_Termination ==
    /\ <>(phase = "returned")
    /\ [][(pc = "top" /\ pc' = "elev")
            => (pending = <<>> /\ waiting = <<>> /\ onboard = <<>>)]_vars

\* C5: a run holding a request heavier than the capacity never takes a
\* simulation step: no clock advance, no travel, no stop, nobody waiting.
C5_FailFast ==
    (\E r \in ReqIds : requests[r].load > ELEVATOR_CAPACITY)
        => /\ total_time = 0
           /\ total_energy = 0
           /\ current_time = 0
           /\ waiting = <<>>
           /\ onboard = <<>>

ActionsEnabled ==
    <<CanGreedyBegin, CanGreedyAssign, CanGreedyEnd, CanMpcBegin, CanMpcIterate,
      CanMpcEnd, CanSimBegin, CanElevBegin, CanFastForward, CanDispatch,
      CanIdleStop, CanSweepTravel, CanSweepStop, CanElevEnd, CanReturn>>

\* C6: a run is determined by its requests, floors and configuration: in
\* every state at most one statement can run next, and the one unordered
\* choice of the code, dirs.pop() on the set of the passengers' directions,
\* never has two elements to choose from.
C6_Determinism ==
    /\ Cardinality({i \in DOMAIN ActionsEnabled : ActionsEnabled[i]}) <= 1
    /\ phase = "simulate" => Cardinality(OnboardDirections(Locals)) <= 1

\* two passengers aboard who agree on the direction
C6_Witness ==
    /\ phase = "simulate"
    /\ Len(onboard) = 2
    /\ Cardinality(OnboardDirections(Locals)) = 1

\* C7: the greedy policy takes the requests in ascending arrival_time and
\* appends each to the elevator with the least (queue length, distance of
\* its forecast floor to the origin, id); the forecast floors start at the
\* elevators' floors; one request at origin 1 with the cars at floor 1 goes
\* to elevator 1.
C7_GreedyChoice ==
    /\ [][(phase = "call" /\ phase' = "greedy")
            => forecast_floor' = [e \in ElevIds |-> floor[e]]]_vars
    /\ [][(phase = "greedy" /\ todo # <<>>)
            => /\ \A j \in 2..Len(todo) :
                     requests[todo[j - 1]].arrival_time
                       <= requests[todo[j]].arrival_time
               /\ todo' = Tail(todo)
               /\ \E e \in ElevIds :
                     /\ queue' = [queue EXCEPT ![e] = Append(@, Head(todo))]
                     /\ \A o \in ElevIds \ {e} :
                           LexLess(<<Len(queue[e]),
                                     Abs(forecast_floor[e]
                                           - requests[Head(todo)].origin), e>>,
                                   <<Len(queue[o]),
                                     Abs(forecast_floor[o]
                                           - requests[Head(todo)].origin), o>>)]_vars
    /\ []((phase = "assigned" /\ Len(requests) = 1 /\ requests[1].origin = 1)
            => queue[1] = <<1>>)

\* the third request went to elevator 2: equal queue lengths, nearer forecast
C7_Witness ==
    /\ phase = "assigned"
    /\ Len(elevators) = 2
    /\ Len(queue[2]) = 2

\* the greedy loop as a function of origins and arrival order alone
RECURSIVE HallCallQueues(_, _, _)
HallCallQueues(rest, q, ff) ==
    IF rest = <<>> THEN q
    ELSE LET origin == requests[Head(rest)].origin
             best == elevators[PyMinIndex([i \in DOMAIN elevators |->
                        <<Len(q[elevators[i]]), Abs(ff[elevators[i]] - origin),
                          elevators[i]>>])]
         IN HallCallQueues(Tail(rest), [q EXCEPT ![best] = Append(@, Head(rest))],
                           [ff EXCEPT ![best] = origin])

\* C8: each greedy assignment leaves the chosen elevator's forecast floor at
\* the request's origin, and the queues are those computed from the origins
\* and the arrival order alone, whatever the destinations.
C8_HallCallOnly ==
    /\ [][(phase = "greedy" /\ todo # <<>>)
            => \E e \in ElevIds :
                  /\ queue'[e] # queue[e]
                  /\ forecast_floor'[e] = requests[Head(todo)].origin]_vars
    /\ [](phase = "assigned"
            => queue = HallCallQueues(SortedByArrival([i \in ReqIds |-> i]),
                                      [e \in ElevIds |-> <<>>],
                                      [e \in ElevIds |-> floor[e]]))

\* mid-assignment: elevator 1 forecast at the origin of a request bound elsewhere
C8_Witness ==
    /\ phase = "greedy"
    /\ Len(queue[1]) = 1
    /\ forecast_floor[1] = requests[queue[1][1]].origin
    /\ requests[queue[1][1]].destination # requests[queue[1][1]].origin
    /\ forecast_floor[1] # floor[1]

\* C9: every pass of the rolling-horizon loop moves exactly one request
\* from unassigned to the end of exactly one queue; the passes made and the
\* requests left always add up to len(requests); at the end every request
\* is in exactly one queue, once.
C9_MpcProgress ==
    /\ [][(phase = "mpc" /\ unassigned # <<>>)
            => \E i \in DOMAIN unassigned :
                  /\ unassigned' = SubSeq(unassigned, 1, i - 1)
                                     \o SubSeq(unassigned, i + 1, Len(unassigned))
                  /\ \E e \in ElevIds :
                        queue' = [queue EXCEPT ![e] = Append(@, unassigned[i])]]_vars
    /\ [](phase = "mpc"
            => Len(unassigned) + Cardinality({p \in ReqIds : Slots(queue, p) # {}})
                 = Len(requests))
    /\ []((phase = "assigned" /\ policy = "mpc")
            => \A r \in ReqIds : Cardinality(Slots(queue, r)) = 1)

\* two requests shared out over two elevators
C9_Witness ==
    /\ phase = "assigned"
    /\ Len(requests) = 2
    /\ Len(elevators) = 2
    /\ queue[2] # <<>>

\* the positions of unassigned inside the look-ahead window
InWindow(un, hor) ==
    {i \in DOMAIN un :
        requests[un[i]].arrival_time <= requests[un[1]].arrival_time + hor}

\* the candidate batch cand of unassigned un under a cap of limit requests
BatchWithin(cand, un, hor, limit) ==
    /\ cand # <<>>
    /\ Len(cand) <= limit
    /\ Contains(cand, 1)
    /\ Cardinality(InWindow(un, hor)) <= limit => InWindow(un, hor) \subseteq ToSet(cand)
    /\ ToSet(cand) = 1..Min(limit, Len(un))
    /\ Cardinality(ToSet(cand)) = Len(cand)

GivenWindow == IF lookahead_window = None THEN MPC_LOOKAHEAD_WINDOW ELSE lookahead_window[1]

GivenBatch == IF max_batch = None THEN MPC_MAX_BATCH ELSE max_batch[1]

\* C10 (as stated): the batch of every pass is non-empty, has at most
\* max_batch requests, holds the earliest one, holds all those inside the
\* window when at most max_batch are, and is filled up to
\* min(max_batch, number unassigned).
C10_CandidateBatch ==
    [][(phase = "mpc" /\ unassigned # <<>>)
         => BatchWithin(candidate_indices', unassigned, GivenWindow, GivenBatch)]_vars

\* C10 (amended): the same with the cap being max_batch when it is positive
\* and max(3 * number of elevators, 1) when it is not.
C10_CandidateBatchEffective ==
    [][(phase = "mpc" /\ unassigned # <<>>)
         => BatchWithin(candidate_indices', unassigned, GivenWindow,
                        IF GivenBatch > 0 THEN GivenBatch
                        ELSE Max(3 * Len(elevators), 1))]_vars

\* a pass that cut the batch to one request although two were in the window
C10_Witness ==
    /\ phase = "mpc"
    /\ max_batch = Some(1)
    /\ Len(requests) = 2
    /\ requests[1].arrival_time = requests[2].arrival_time
    /\ Len(unassigned) = 1
    /\ candidate_indices = <<1>>

\* the options of the pass that committed request unassigned[idx] to elevator e
CommittedOptions(options) ==
    {i \in DOMAIN options :
        /\ unassigned' = RemoveAt(unassigned, options[i].idx)
        /\ queue' = [queue EXCEPT ![options[i].elevator_id] =
                       Append(@, unassigned[options[i].idx])]}

\* sel is within epsilon of the best cost; of the options within epsilon of
\* the best cost it is within epsilon of the best finish time; of those it
\* is within epsilon of the best passenger time
LexicographicBest(options, sel) ==
    LET S == {options[i] : i \in DOMAIN options}
        byCost == {o \in S : \A p \in S : o.cost <= p.cost + CostEps}
        byFinish == {o \in byCost :
                       \A p \in byCost : o.finish_time <= p.finish_time + CostEps}
        byPassenger == {o \in byFinish :
                          \A p \in byFinish :
                             o.passenger_time <= p.passenger_time + CostEps}
    IN /\ sel \in byPassenger
       /\ \A p \in S : ~(p.cost + CostEps < sel.cost)
       /\ \A p \in byCost : ~(p.finish_time + CostEps < sel.finish_time)

\* C11: the option a pass of the rolling-horizon loop commits is within
\* epsilon of the minimum cost over the candidate options, among those within
\* epsilon of the minimum finish time, among those within epsilon of the
\* minimum passenger time; no option better by more than epsilon on an
\* earlier criterion is passed over.
C11_LexicographicSelection ==
    [][(phase = "mpc" /\ unassigned # <<>>)
         => \E options \in {CandidateOptions(unassigned, candidate_indices', plans)} :
               /\ CommittedOptions(options) # {}
               /\ \A i \in CommittedOptions(options) :
                     LexicographicBest(options, options[i])]_vars

\* a pass with both requests in the batch committed the later arrival first
C11_Witness ==
    /\ phase = "mpc"
    /\ Len(requests) = 2
    /\ Len(elevators) = 2
    /\ candidate_indices = <<1, 2>>
    /\ unassigned = <<1>>
    /\ requests[1].arrival_time < requests[2].arrival_time

\* the options left after the cost, finish-time and passenger-time filters
StillTied(options) ==
    LET S == {options[i] : i \in DOMAIN options}
        byCost == {o \in S : \A p \in S : o.cost <= p.cost + CostEps}
        byFinish == {o \in byCost :
                       \A p \in byCost : o.finish_time <= p.finish_time + CostEps}
    IN {o \in byFinish :
          \A p \in byFinish : o.passenger_time <= p.passenger_time + CostEps}

\* the forward cyclic distance of elevator index i from the cursor
CursorDistance(i) == (i - tie_cursor) % Len(elevators)

\* C12: the committed option is, of the options still tied, one of an
\* elevator at the smallest forward cyclic distance from the tie cursor; the
\* cursor moves to the winner's index + 1 modulo the number of elevators
\* when the tied options name more than one elevator, and keeps its value
\* when they name one.
C12_FairnessCursor ==
    [][(phase = "mpc" /\ unassigned # <<>>)
         => \E options \in {CandidateOptions(unassigned, candidate_indices', plans)} :
              \E tied \in {StillTied(options)} :
                 \A i \in CommittedOptions(options) :
                    /\ options[i] \in tied
                    /\ \A o \in tied :
                          CursorDistance(options[i].elev_idx)
                             <= CursorDistance(o.elev_idx)
                    /\ tie_cursor' =
                         IF Cardinality({o.elev_idx : o \in tied}) > 1
                         THEN (options[i].elev_idx + 1) % Len(elevators)
                         ELSE tie_cursor]_vars

\* the projected finish time of request r on elevator e
ProjectedFinish(e, r) == _estimate_incremental_cost(plans[e], r).finish_time

\* the incremental cost of request r on elevator e
ProjectedCost(e, r) == _estimate_incremental_cost(plans[e], r).cost

\* C13 (as stated): with max_batch = 1 every pass commits the earliest
\* unassigned request, to an elevator whose projected finish time for it is
\* the lowest.
C13_GreedyByFinish ==
    [][(phase = "mpc" /\ unassigned # <<>> /\ max_batch = Some(1))
         => /\ unassigned' = Tail(unassigned)
            /\ \E e \in ElevIds :
                  /\ queue' = [queue EXCEPT ![e] = Append(@, Head(unassigned))]
                  /\ \A o \in ElevIds :
                        ProjectedFinish(e, Head(unassigned))
                          <= ProjectedFinish(o, Head(unassigned))]_vars

\* every elevator can be at the origin of request r before r arrives
ArrivesAfterAll(r) ==
    \A o \in ElevIds :
        plans[o].time + travel_time(0, plans[o].floor, requests[r].origin)
          <= requests[r].arrival_time

\* C13 (amended): with max_batch = 1 every pass commits the earliest
\* unassigned request, to an elevator whose incremental cost for it is within
\* epsilon of the lowest; when every elevator can reach the origin before
\* the request arrives, that elevator also has the lowest projected finish
\* time.
C13_GreedyByCost ==
    [][(phase = "mpc" /\ unassigned # <<>> /\ max_batch = Some(1))
         => /\ unassigned' = Tail(unassigned)
            /\ \E e \in ElevIds :
                  /\ queue' = [queue EXCEPT ![e] = Append(@, Head(unassigned))]
                  /\ \A o \in ElevIds :
                        ProjectedCost(e, Head(unassigned))
                          <= ProjectedCost(o, Head(unassigned)) + CostEps
                  /\ ArrivesAfterAll(Head(unassigned))
                       => \A o \in ElevIds :
                             ProjectedFinish(e, Head(unassigned))
                               <= ProjectedFinish(o, Head(unassigned))]_vars

\* a call with max_batch = 1 that placed three requests, the last one on the
\* elevator that was busy longer
C13_Witness ==
    /\ phase = "mpc"
    /\ max_batch = Some(1)
    /\ unassigned = <<>>
    /\ queue = <<<<1>>, <<2, 3>>>>
    /\ plans[1].time < plans[2].time
    /\ plans[1].floor # requests[3].origin

\* a step that is a stop of the car: the stop after an idle pickup trip, or
\* a stop of the direction sweep
AtStop == phase = "simulate" /\ pc \in {"idle_stop", "sweep_stop"}

\* request b waits at the car's floor, arrived
WaitsHere(b) ==
    /\ b \in ToSet(waiting)
    /\ requests[b].origin = current_floor
    /\ requests[b].arrival_time <= current_time

\* the mass that stays in the car at this stop, and the mass of all the
\* requests waiting here that travel in direction dir or nowhere
StayingLoad ==
    SumLoad(SelectSeq(onboard, LAMBDA r : requests[r].destination # current_floor))

CandidateLoad(dir) ==
    SumLoad(SelectSeq(waiting,
                      LAMBDA r : /\ WaitsHere(r)
                                 /\ request_direction(r, current_floor)
                                      \in {dir, "idle"}))

\* the direction a request travels in
TravelDirection(r) ==
    IF requests[r].destination > requests[r].origin THEN "up"
    ELSE IF requests[r].destination < requests[r].origin THEN "down"
    ELSE "idle"

\* both were served by one car
SameCar(a, b) ==
    \E e \in ElevIds :
        {a, b} \subseteq ToSet(queue[e]) \cup ToSet(served_requests[e])
                           \cup (IF phase = "simulate" /\ pc # "elev"
                                    /\ k \in DOMAIN elevators /\ elevators[k] = e
                                 THEN ToSet(service_log) ELSE {})

\* a and b were in the car at the same time, and the destination of a is the
\* nearer one in the direction they travel
NearerOnboard(a, b) ==
    /\ a # b
    /\ SameCar(a, b)
    /\ pickup_time[a] # None /\ dropoff_time[a] # None
    /\ pickup_time[b] # None /\ dropoff_time[b] # None
    /\ pickup_time[a][1] < dropoff_time[b][1]
    /\ pickup_time[b][1] < dropoff_time[a][1]
    /\ TravelDirection(a) # "idle"
    /\ TravelDirection(a) = TravelDirection(b)
    /\ IF TravelDirection(a) = "up"
       THEN requests[a].destination < requests[b].destination
       ELSE requests[a].destination > requests[b].destination

NearerDropsFirst ==
    \A a, b \in ReqIds :
        NearerOnboard(a, b) => dropoff_time[a][1] < dropoff_time[b][1]

\* the mass of the requests that wait here and travel in the direction of a
SameDirectionLoad(a) ==
    SumLoad(SelectSeq(waiting,
                      LAMBDA r : /\ WaitsHere(r)
                                 /\ request_direction(r, current_floor)
                                      = request_direction(a, current_floor)))

\* C14 (as stated): at a stop where request a boards, when the loads of the
\* requests that wait there with the direction of a are together within the
\* capacity, all of them board too; of two requests in the car together the
\* one with the nearer destination in their direction is dropped strictly
\* earlier.
C14_NearerFirst ==
    /\ [][AtStop
            => \A a, b \in ToSet(waiting) :
                  (/\ a \notin ToSet(waiting')
                   /\ WaitsHere(b)
                   /\ request_direction(b, current_floor)
                        = request_direction(a, current_floor)
                   /\ SameDirectionLoad(a) <= ELEVATOR_CAPACITY)
                    => b \notin ToSet(waiting')]_vars
    /\ []NearerDropsFirst

\* C14 (amended): the same, for the stops where the mass staying in the car
\* and the loads of all the boarding candidates are together within the
\* capacity.
C14_NearerFirstWithinRemaining ==
    /\ [][AtStop
            => \A a, b \in ToSet(waiting) :
                  (/\ a \notin ToSet(waiting')
                   /\ WaitsHere(b)
                   /\ request_direction(b, current_floor)
                        = request_direction(a, current_floor)
                   /\ StayingLoad + CandidateLoad(direction') <= ELEVATOR_CAPACITY)
                    => b \notin ToSet(waiting')]_vars
    /\ []NearerDropsFirst

\* a run that took two requests in at one stop and dropped the nearer first
C14_Witness ==
    /\ phase = "returned"
    /\ \E a, b \in ReqIds :
          /\ NearerOnboard(a, b)
          /\ pickup_time[a] = pickup_time[b]
          /\ requests[a].origin = requests[b].origin
          /\ dropoff_time[a][1] < dropoff_time[b][1]

\* C15: after simulate_dispatch has returned on requests within the
\* capacity, a request that precedes another in an elevator's
\* served_requests was not dropped later than it.
C15_CompletionOrder ==
    (phase = "returned" /\ AllWithinCapacity)
        => \A e \in ElevIds :
              \A i, j \in DOMAIN served_requests[e] :
                 i < j => dropoff_time[served_requests[e][i]][1]
                            <= dropoff_time[served_requests[e][j]][1]

\* the requests of served_requests[e] dropped last
LastDropped(e) ==
    {r \in ToSet(served_requests[e]) :
        \A q \in ToSet(served_requests[e]) :
            dropoff_time[q][1] <= dropoff_time[r][1]}

\* C16: when simulate_dispatch has returned, every queue is empty,
\* initial_floor is the floor the elevator started the run on, floor is the
\* floor of the elevator's last stop (the starting floor when it served
\* nothing), and every request of served_requests has its four timestamps.
C16_ExitState ==
    phase = "returned"
        => \A e \in ElevIds :
              /\ queue[e] = <<>>
              /\ initial_floor[e] = Some(InitialFloor)
              /\ \A r \in ToSet(served_requests[e]) :
                    /\ origin_arrival_time[r] # None
                    /\ pickup_time[r] # None
                    /\ destination_arrival_time[r] # None
                    /\ dropoff_time[r] # None
              /\ IF served_requests[e] = <<>>
                 THEN floor[e] = InitialFloor
                 ELSE \A r \in LastDropped(e) : floor[e] = requests[r].destination

\* a run that returned with an elevator resting away from its starting floor
\* after two requests
C16_Witness ==
    /\ phase = "returned"
    /\ \E e \in ElevIds :
          /\ Len(served_requests[e]) = 2
          /\ floor[e] # InitialFloor
          /\ initial_floor[e] = Some(InitialFloor)

\* C17: whenever the solver was unavailable, found the model infeasible or
\* ran into its time limit, assign_requests_milp has returned False, has not
\* raised, and has left every queue empty.
C17_SolverFailure ==
    (phase = "milp_done"
       /\ status \in {Some("UNAVAILABLE"), Some("INFEASIBLE"), Some("TIME_LIMIT")})
        => /\ milp_result = Some("False")
           /\ \A e \in ElevIds : queue[e] = <<>>


(***************************************************************************)
(* C18: parameter isolation in sweeps.  The lookahead window and the batch *)
(* size that assign_requests_mpc uses while a worker process evaluates a   *)
(* combination are that combination's values.                              *)
(***************************************************************************)
C18_ParameterIsolation ==
    \A w \in DOMAIN used_params :
        used_params[w] # None =>
            /\ used_params[w][1].horizon = worker_combo[w][1].window
            /\ used_params[w][1].batch_limit =
                 BatchLimitFor(Some(worker_combo[w][1].batch), ELEVATOR_COUNT)


(***************************************************************************)
(* C19: idle pickup.  When the car is empty, the request selected as       *)
(* pickup target (minimum of (arrival_time, |origin - current_floor|) over *)
(* waiting) is among the boarding candidates of the stop the car makes for *)
(* it, and the direction committed at that stop is the direction of that   *)
(* target's destination relative to the stop floor.                        *)
(***************************************************************************)
\* the car stands at the pickup floor, doors about to open
AtIdleStop == phase = "simulate" /\ pc = "idle_stop"

\* the target the car came for, read at the stop: the earliest waiting
\* request, at this floor, first in the waiting list
StopTarget ==
    LET earliest == MinOf({requests[r].arrival_time : r \in ToSet(waiting)})
        mine == SelectSeq(waiting,
                          LAMBDA r : /\ requests[r].origin = current_floor
                                     /\ requests[r].arrival_time = earliest)
    IN mine[1]

\* the target that Dispatch travels to is the one read at the stop
StopTargetIsTarget ==
    [][(phase = "simulate" /\ pc = "top" /\ pc' = "idle_stop")
         => StopTarget' = target_req(AtTop)]_vars

\* the direction of a request's trip, seen from the car's floor
DirectionOf(r) == request_direction(r, current_floor)

\* C19 as stated
C19_IdlePickup ==
    [][(AtIdleStop /\ pc' # "idle_stop")
         => /\ Contains(Boarders(Locals, direction'), StopTarget)
            /\ direction' = DirectionOf(StopTarget)]_vars

\* the request at the stop floor, as early as the target, whose destination
\* is nearest to the stop floor
StopPrimary ==
    LET t == StopTarget
        peers == SelectSeq(waiting,
                           LAMBDA r : /\ requests[r].origin = current_floor
                                      /\ requests[r].arrival_time
                                           = requests[t].arrival_time)
        reach(r) == Abs(requests[r].destination - current_floor)
        nearest == MinOf({reach(r) : r \in ToSet(peers)})
    IN SelectSeq(peers, LAMBDA r : reach(r) = nearest)[1]

\* C19, amended: the stop commits the direction of the request, among those
\* waiting at the stop floor that arrived when the target did, whose
\* destination is nearest to the stop floor (the first of them in waiting
\* order); that request is among the boarding candidates; the target is a
\* candidate exactly when its own direction is the committed one or idle,
\* which is so whenever no such request has a nearer destination.
C19_IdlePickupOfPrimary ==
    [][(AtIdleStop /\ pc' # "idle_stop")
         => /\ direction' = DirectionOf(StopPrimary)
            /\ Contains(Boarders(Locals, direction'), StopPrimary)
            /\ Contains(Boarders(Locals, direction'), StopTarget)
                 <=> DirectionOf(StopTarget) \in {direction', "idle"}
            /\ StopPrimary = StopTarget
                 => /\ Contains(Boarders(Locals, direction'), StopTarget)
                    /\ direction' = DirectionOf(StopTarget)]_vars

\* a stop made for a target whose direction is not the one committed: the
\* target stays on the landing while another request boards
C19_Witness ==
    /\ phase = "simulate"
    /\ pc = "sweep"
    /\ \E t \in ToSet(waiting), p \in ToSet(onboard) :
          /\ requests[t].origin = current_floor
          /\ requests[p].origin = current_floor
          /\ requests[t].arrival_time = requests[p].arrival_time
          /\ t < p
          /\ DirectionOf(p) = direction
          /\ DirectionOf(t) \notin {direction, "idle"}
          /\ origin_arrival_time[p] # None


(***************************************************************************)
(* C20: direction unanimity.  Whenever the loops of simulate_dispatch find *)
(* passengers in the car, the destinations of all of them lie strictly     *)
(* ahead of the current floor in the committed direction (all above when   *)
(* up, all below when down); hence the branch that releases passengers     *)
(* having no forward destination is never executed, and the direction      *)
(* sweep never exits with passengers still aboard.                         *)
(***************************************************************************)
\* the floor lies ahead of the car in the committed direction
StrictlyAhead(x) ==
    \/ direction = "up" /\ x > current_floor
    \/ direction = "down" /\ x < current_floor

\* the car is at the head of the main loop or of the direction sweep
AtLoopHead == phase = "simulate" /\ pc \in {"top", "sweep"}

\* the car has reached a floor of the sweep and has not opened its doors
AtSweepStop == phase = "simulate" /\ pc = "sweep_stop"

C20_DirectionUnanimity ==
    /\ [](AtLoopHead =>
            \A r \in ToSet(onboard) : StrictlyAhead(requests[r].destination))
    /\ [](AtSweepStop =>
            \A r \in ToSet(onboard) :
                \/ StrictlyAhead(requests[r].destination)
                \/ requests[r].destination = current_floor)
    \* lines 246-249: the release of passengers without forward destination
    /\ [][~(/\ phase = "simulate" /\ pc = "top" /\ onboard # <<>>
            /\ \A r \in ToSet(onboard) : requests[r].destination = current_floor
            /\ pc' = "top")]_vars
    \* line 285: the break of the sweep
    /\ [][(phase = "simulate" /\ pc = "sweep" /\ pc' = "top")
            => onboard' = <<>>]_vars

\* a sweep under way with two passengers bound for different floors
C20_Witness ==
    /\ phase = "simulate"
    /\ pc = "sweep"
    /\ direction = "down"
    /\ \E a \in ToSet(onboard), b \in ToSet(onboard) :
          /\ requests[a].destination < requests[b].destination
          /\ requests[b].destination < current_floor


(***************************************************************************)
(* C21: direction sweep progress.  In every iteration of the sweep the     *)
(* next floor is the nearest floor strictly ahead in the current direction *)
(* that is an onboard destination or the origin of an already-arrived      *)
(* same-direction waiting request; next_floor never equals current_floor,  *)
(* the car never passes an onboard passenger's destination without         *)
(* stopping, and it never reverses while passengers are aboard.            *)
(***************************************************************************)
\* the requests of the queue that have arrived and are not yet in the car
ArrivedOutside ==
    {r \in ToSet(waiting) \cup ToSet(pending) :
        requests[r].arrival_time <= current_time}

\* the floors the sweep may stop at: destinations of the passengers, and
\* origins of arrived requests that travel the way the car does
SweepFloors ==
    {requests[r].destination : r \in ToSet(onboard)}
      \cup {requests[r].origin :
              r \in {q \in ArrivedOutside :
                       IF direction = "up"
                       THEN requests[q].destination > requests[q].origin
                       ELSE requests[q].destination < requests[q].origin}}

\* x lies strictly between the floors a and b
Between(x, a, b) == (a < x /\ x < b) \/ (b < x /\ x < a)

\* a step of the sweep that moves the car
SweepMoves == phase = "simulate" /\ pc = "sweep" /\ pc' = "sweep_stop"

C21_SweepProgress ==
    /\ [][SweepMoves =>
            /\ current_floor' # current_floor
            /\ (current_floor' > current_floor) <=> (direction = "up")
            /\ (current_floor' < current_floor) <=> (direction = "down")
            /\ current_floor' \in SweepFloors
            /\ \A x \in SweepFloors : ~Between(x, current_floor, current_floor')
            /\ direction' = direction]_vars
    \* whoever is aboard when the car moves is carried towards the
    \* destination and not beyond it
    /\ [][(phase = "simulate" /\ current_floor' # current_floor)
            => \A r \in ToSet(onboard) :
                  IF current_floor' > current_floor
                  THEN requests[r].destination >= current_floor'
                  ELSE requests[r].destination <= current_floor']_vars

\* the sweep has stopped on its way for a request that waits there, with a
\* passenger aboard who travels on
C21_Witness ==
    /\ phase = "simulate"
    /\ pc = "sweep_stop"
    /\ \E r \in ToSet(onboard), w \in ToSet(waiting) :
          /\ requests[w].origin = current_floor
          /\ requests[w].arrival_time <= current_time
          /\ requests[r].destination # current_floor
          /\ requests[r].origin # current_floor


(***************************************************************************)
(* C22: collective control.  Once the car has committed to a travel        *)
(* direction it serves every compatible stop ahead in that direction       *)
(* before reversing: the car never starts moving in the opposite direction *)
(* while an already-arrived waiting request with origin ahead and          *)
(* destination in the same direction remains unserved.                     *)
(***************************************************************************)
\* arrived requests that wait ahead of the car and travel the committed way
CompatibleAhead ==
    {w \in ArrivedOutside :
        IF direction = "up"
        THEN /\ requests[w].origin > current_floor
             /\ requests[w].destination > requests[w].origin
        ELSE /\ requests[w].origin < current_floor
             /\ requests[w].destination < requests[w].origin}

\* the sweep in the committed direction has just let its last passenger out
SweepJustEnded ==
    /\ phase = "simulate"
    /\ pc = "top"
    /\ direction \in {"up", "down"}
    /\ \E r \in ReqIds :
          /\ dropoff_time[r] = Some(current_time)
          /\ requests[r].destination = current_floor
          /\ requests[r].origin # current_floor

\* the step moves the car against the committed direction
Reverses ==
    \/ direction = "up" /\ current_floor' < current_floor
    \/ direction = "down" /\ current_floor' > current_floor

C22_CollectiveControl ==
    [][(SweepJustEnded /\ Reverses) => CompatibleAhead = {}]_vars


(***************************************************************************)
(* C23: pull_ready invariant.  At every decision point of                  *)
(* simulate_dispatch (after each fast-forward, travel segment and stop) no *)
(* request in pending has arrival_time <= current_time, every request in   *)
(* waiting has arrival_time <= current_time, and pending, waiting, onboard *)
(* and the already-dropped-off requests are pairwise disjoint and together *)
(* contain exactly the elevator's queue.                                   *)
(***************************************************************************)
\* the loops of one elevator are running
InLoops == phase = "simulate" /\ pc \in {"top", "idle_stop", "sweep", "sweep_stop"}

\* a sequence without repetition
NoRepeat(s) == \A i \in DOMAIN s, j \in DOMAIN s : s[i] = s[j] => i = j

\* the requests of the elevator's queue already let out
DroppedOff ==
    {r \in ToSet(queue[elevators[k]]) : dropoff_time[r] # None}

PullReadyInvariant ==
    /\ \A r \in ToSet(pending) : requests[r].arrival_time > current_time
    /\ \A r \in ToSet(waiting) : requests[r].arrival_time <= current_time
    /\ NoRepeat(pending) /\ NoRepeat(waiting) /\ NoRepeat(onboard)
    /\ ToSet(pending) \cap ToSet(waiting) = {}
    /\ ToSet(pending) \cap ToSet(onboard) = {}
    /\ ToSet(pending) \cap DroppedOff = {}
    /\ ToSet(waiting) \cap ToSet(onboard) = {}
    /\ ToSet(waiting) \cap DroppedOff = {}
    /\ ToSet(onboard) \cap DroppedOff = {}
    /\ ToSet(pending) \cup ToSet(waiting) \cup ToSet(onboard) \cup DroppedOff
         = ToSet(queue[elevators[k]])

\* every step of the loops is a fast-forward, a travel segment or a stop
C23_PullReady ==
    [][(InLoops /\ InLoops') => PullReadyInvariant']_vars

\* a request that arrived after a passenger had boarded has been moved to
\* waiting while that passenger is still aboard
C23_Witness ==
    /\ InLoops
    /\ onboard # <<>>
    /\ \E w \in ToSet(waiting) :
          /\ requests[w].arrival_time > 0
          /\ \E r \in ToSet(onboard) : pickup_time[r] # None
                                          /\ pickup_time[r][1] < requests[w].arrival_time


(***************************************************************************)
(* C24: idle fast-forward.  When waiting and onboard are empty and pending *)
(* is not, the clock jumps exactly to the earliest pending arrival_time    *)
(* (never backwards), standby energy for exactly that gap is added to      *)
(* total_energy, and the step leaves the car floor, the total running time *)
(* and emptyload_energy unchanged.                                         *)
(***************************************************************************)
\* the car is idle at the head of the main loop and requests are yet to come
IdleWithPending ==
    /\ phase = "simulate"
    /\ pc = "top"
    /\ waiting = <<>>
    /\ onboard = <<>>
    /\ pending # <<>>
    /\ \A r \in ToSet(pending) : requests[r].arrival_time > current_time

EarliestPending == MinOf({requests[r].arrival_time : r \in ToSet(pending)})

C24_IdleFastForward ==
    [][IdleWithPending =>
         /\ current_time' = EarliestPending
         /\ current_time' >= current_time
         /\ total_energy' = total_energy + standby_energy(current_time' - current_time)
         /\ current_floor' = current_floor
         /\ total_time' = total_time
         /\ emptyload_energy' = emptyload_energy
         /\ \A r \in ToSet(pending) :
               requests[r].arrival_time = EarliestPending <=> r \in ToSet(waiting')]_vars

\* the clock has jumped over a gap, after a request was served
C24_Witness ==
    /\ phase = "simulate"
    /\ pc = "top"
    /\ onboard = <<>>
    /\ waiting # <<>>
    /\ \A w \in ToSet(waiting) : requests[w].arrival_time = current_time
    /\ \E r \in ReqIds : dropoff_time[r] # None /\ dropoff_time[r][1] < current_time
    /\ total_time < current_time


(***************************************************************************)
(* C25: capacity-limited boarding.  At a stop the boarding candidates are  *)
(* considered in waiting-list order and each is admitted only if its load  *)
(* fits the capacity remaining after the alighting passengers and the      *)
(* candidates admitted before it; every candidate that is not admitted     *)
(* stays in waiting unchanged (no timestamp stamped, not added to the      *)
(* served log) and is served at a later stop.                              *)
(***************************************************************************)
\* the doors are about to open: a stop of the idle pickup or of the sweep
AtDoors == phase = "simulate" /\ pc \in {"idle_stop", "sweep_stop"}

\* the boarding candidates of the stop, in waiting order, given the
\* direction the stop commits
CandidatesFor(dir) ==
    SelectSeq(waiting,
              LAMBDA r : /\ requests[r].origin = current_floor
                         /\ requests[r].arrival_time <= current_time
                         /\ \/ requests[r].destination = current_floor
                            \/ dir = "up" /\ requests[r].destination > current_floor
                            \/ dir = "down" /\ requests[r].destination < current_floor)

\* the capacity left once the passengers bound for this floor are out
CapacityAfterAlighting ==
    ELEVATOR_CAPACITY
      - SumLoad(SelectSeq(onboard,
                          LAMBDA r : requests[r].destination # current_floor))

\* the load of the candidates that come before position i and board
BoardedBefore(cands, i, boarded) ==
    SumLoad(SelectSeq(SubSeq(cands, 1, i - 1), LAMBDA r : r \in boarded))

\* no stamp, still waiting, not in the log
LeftUntouched(r) ==
    /\ Contains(waiting', r)
    /\ pickup_time'[r] = None
    /\ origin_arrival_time'[r] = None
    /\ dropoff_time'[r] = None
    /\ destination_arrival_time'[r] = None
    /\ ~Contains(service_log', r)

\* what a stop does to its candidates
BoardingInOrder ==
    [][AtDoors =>
         LET cands == CandidatesFor(direction')
             boarded == {r \in ToSet(cands) : pickup_time'[r] # None}
         IN \A i \in DOMAIN cands :
               /\ cands[i] \in boarded
                    <=> requests[cands[i]].load
                          <= CapacityAfterAlighting
                               - BoardedBefore(cands, i, boarded) + MassTol
               /\ cands[i] \notin boarded => LeftUntouched(cands[i])]_vars

\* a stop at this floor in the request's direction has left it on the landing
LeftBehind(r) ==
    /\ phase = "simulate"
    /\ pc \in {"top", "sweep"}
    /\ Contains(waiting, r)
    /\ requests[r].origin = current_floor
    /\ requests[r].arrival_time <= current_time
    /\ direction # "unset"
    /\ Contains(CandidatesFor(direction), r)

C25_CapacityLimitedBoarding ==
    /\ BoardingInOrder
    /\ \A r \in 1..MaxRequests :
          (r \in ReqIds /\ LeftBehind(r)) ~> (r \in ReqIds /\ pickup_time[r] # None)


(***************************************************************************)
(* C27: dwell accounting.  A process_stop advances the clock (and the      *)
(* total running time, and the standby energy) by a positive dwell if and  *)
(* only if at least one passenger is actually admitted or alights at that  *)
(* stop; a stop at which nobody is admitted and nobody alights leaves      *)
(* clock, total time and energy unchanged.                                 *)
(***************************************************************************)
\* somebody is picked up or let out by the step
SomebodyMoves ==
    \E r \in ReqIds :
        \/ pickup_time[r] = None /\ pickup_time'[r] # None
        \/ dropoff_time[r] = None /\ dropoff_time'[r] # None

C27_DwellAccounting ==
    [][AtDoors =>
         LET dwell == current_time' - current_time
         IN /\ dwell >= 0
            /\ total_time' = total_time + dwell
            /\ total_energy' = total_energy + standby_energy(dwell)
            /\ (dwell > 0) <=> SomebodyMoves]_vars


(***************************************************************************)
(* C26: same-floor requests.  A request whose destination equals the floor *)
(* where it boards is stamped with dropoff_time = pickup_time and          *)
(* destination_arrival_time = origin_arrival_time at that stop, is removed *)
(* from waiting, is recorded as served, and is never a member of onboard.  *)
(***************************************************************************)
\* the requests that board at the floor they want to reach
SameFloor == {r \in ReqIds : requests[r].origin = requests[r].destination}

\* the served logs: the one of the elevator at work and those handed back
Logged ==
    ToSet(service_log) \cup UNION {ToSet(served_requests[e]) : e \in ElevIds}

C26_SameFloorRequests ==
    /\ [](\A r \in SameFloor :
            /\ ~Contains(onboard, r)
            /\ pickup_time[r] # None =>
                  /\ dropoff_time[r] = pickup_time[r]
                  /\ destination_arrival_time[r] = origin_arrival_time[r]
                  /\ origin_arrival_time[r] # None
                  /\ ~Contains(waiting, r)
                  /\ r \in Logged)
    \* all of it is done by the stop that takes the request
    /\ [][\A r \in SameFloor :
            (phase = "simulate" /\ pickup_time[r] = None /\ pickup_time'[r] # None)
               => /\ AtDoors
                  /\ current_floor = requests[r].origin
                  /\ Contains(waiting, r)
                  /\ dropoff_time'[r] = Some(current_time')
                  /\ Contains(service_log', r)]_vars

\* a same-floor request was taken at a stop where another request boarded
\* and stayed in the car
C26_Witness ==
    /\ phase = "simulate"
    /\ \E r \in SameFloor, q \in ToSet(onboard) :
          /\ pickup_time[r] # None
          /\ pickup_time[q] = pickup_time[r]
          /\ origin_arrival_time[r] # pickup_time[r]


(***************************************************************************)
(* C28: empty-load energy.  A travel segment adds its motion plus standby  *)
(* energy to emptyload_energy if and only if the car carries no load       *)
(* during that segment; every segment travelled with passengers aboard,    *)
(* every dwell and every idle fast-forward leaves emptyload_energy         *)
(* unchanged.                                                              *)
(***************************************************************************)
\* the step is a travel segment: the car changes floor
TravelSegment == InLoops /\ current_floor' # current_floor

C28_EmptyLoadEnergy ==
    /\ [][TravelSegment =>
            /\ total_energy' > total_energy
            /\ IF SumLoad(onboard) = 0
               THEN emptyload_energy' - emptyload_energy
                      = total_energy' - total_energy
               ELSE emptyload_energy' = emptyload_energy]_vars
    /\ [][(phase = "simulate" /\ current_floor' = current_floor)
            => emptyload_energy' = emptyload_energy]_vars

\* the car has run empty to a pickup, carried the passenger to another
\* floor, and only the first segment is in emptyload_energy
C28_Witness ==
    /\ phase = "simulate"
    /\ emptyload_energy > 0
    /\ total_energy > emptyload_energy
    /\ \E r \in ReqIds :
          /\ dropoff_time[r] # None
          /\ requests[r].origin # requests[r].destination
          /\ requests[r].origin # InitialFloor
    /\ total_energy - emptyload_energy > standby_energy(total_time)


(***************************************************************************)
(* C29: rolling-horizon commit frame.  Committing a (request, elevator)    *)
(* pair changes only the winning elevator's plan, setting it to (request   *)
(* destination, computed finish time); the plans and queues of all other   *)
(* elevators are unchanged, the real elevator floor is never modified by   *)
(* assignment, and no elevator's projected time ever decreases.            *)
(***************************************************************************)
\* the step of assign_requests_mpc commits a pair
Commits == phase = "mpc" /\ unassigned' # unassigned

\* the step gives request r to elevator w and to nobody else
CommitsPair(r, w) ==
    /\ unassigned' = SelectSeq(unassigned, LAMBDA x : x # r)
    /\ queue'[w] = Append(queue[w], r)
    /\ plans'[w] = [floor |-> requests[r].destination,
                    time |-> _estimate_incremental_cost(plans[w], r).finish_time]
    /\ \A e \in ElevIds \ {w} : plans'[e] = plans[e] /\ queue'[e] = queue[e]

C29_CommitFrame ==
    /\ [][Commits =>
            /\ \E r \in ToSet(unassigned), w \in ElevIds : CommitsPair(r, w)
            /\ \A e \in ElevIds : plans'[e].time >= plans[e].time]_vars
    /\ [][(phase = "call" \/ phase = "mpc") => floor' = floor]_vars

\* both elevators hold a committed request, away from where the cars stand
C29_Witness ==
    /\ phase = "mpc"
    /\ \A e \in ElevIds : queue[e] # <<>> /\ plans[e].time > 0
    /\ \E e \in ElevIds : plans[e].floor # floor[e]
    /\ Cardinality(ElevIds) = 2


(***************************************************************************)
(* C30: stall fallback.  If in some iteration no elevator yields an        *)
(* estimate for any request of the candidate batch, assign_requests_mpc    *)
(* assigns the earliest candidate to the elevator with the smallest        *)
(* projected time, removes exactly one request from unassigned and goes    *)
(* on.  _estimate_incremental_cost has no path that returns None, so the   *)
(* iteration the claim speaks of does not occur: every iteration has an    *)
(* option for every pair of the batch.                                     *)
(***************************************************************************)
EveryPairCosted ==
    (phase = "mpc" /\ unassigned # <<>>)
       => \E cand \in {CandidateIndices(unassigned, horizon, batch_limit)} :
             /\ cand # <<>>
             /\ Len(CandidateOptions(unassigned, cand, plans))
                  = Len(cand) * Len(elevators)

(***************************************************************************)
(* The destination predictor behind the packaged scheduler                 *)
(* (scheduler/mpc_scheduler/mpc_scheduler.py).  predictor is the outcome   *)
(* of prediction_api for the call: no model loaded, a model that raises,   *)
(* or a model that answers with dist, the items of the returned dict in    *)
(* insertion order.  A probability is kept as a fraction num / den.        *)
(***************************************************************************)
DEST_TOP_K == 3

MaxWeight == 2

\* sorted(..., key=prob, reverse=True) is stable: equal items keep their order
RECURSIVE InsertByProb(_, _)
InsertByProb(sorted, item) ==
    IF sorted = <<>> THEN <<item>>
    ELSE IF Head(sorted).prob >= item.prob
         THEN <<Head(sorted)>> \o InsertByProb(Tail(sorted), item)
         ELSE <<item>> \o sorted

RECURSIVE SortedByProb(_)
SortedByProb(items) ==
    IF items = <<>> THEN <<>>
    ELSE InsertByProb(SortedByProb(SubSeq(items, 1, Len(items) - 1)),
                      items[Len(items)])

RECURSIVE SumProb(_)
SumProb(items) ==
    IF items = <<>> THEN 0 ELSE Head(items).prob + SumProb(Tail(items))

\* the whole distribution, without the cut at DEST_TOP_K
AllItems(items) == items

\* items[:DEST_TOP_K] if DEST_TOP_K > 0 else items
TopItems(items) ==
    IF DEST_TOP_K > 0
    THEN SubSeq(items, 1, Min(DEST_TOP_K, Len(items)))
    ELSE items

\* the try / except around _predict_distribution
PredictedDistribution ==
    IF predictor.raises THEN <<>> ELSE predictor.dist

Certain == [num |-> 1, den |-> 1]

_destination_candidates(request) ==
    LET dist == IF predictor.loaded THEN PredictedDistribution ELSE <<>>
        top_items == TopItems(SortedByProb(dist))
        total_prob == SumProb(top_items)
    IN IF dist # <<>> /\ total_prob > 0
       THEN [i \in DOMAIN top_items |->
               [destination |-> top_items[i].dest,
                prob |-> [num |-> top_items[i].prob, den |-> total_prob]]]
       ELSE <<[destination |-> request.destination, prob |-> Certain]>>

_cost_for_destination(plan, request, destination) ==
    EstimateCost(
        EstimateTotals(plan, [request EXCEPT !.destination = destination],
                       travel_time(0, plan.floor, request.origin),
                       hold_time(request.load, 0),
                       travel_time(request.load, request.origin, destination)))

\* prob * value, in the units of value
Weighted(prob, value) == (prob.num * value) \div prob.den

\* the for loop that accumulates the three expectations
RECURSIVE ExpectedLoop(_, _, _, _)
ExpectedLoop(cands, plan, request, sums) ==
    IF cands = <<>> THEN sums
    ELSE LET one == _cost_for_destination(plan, request,
                                          Head(cands).destination)
         IN ExpectedLoop(Tail(cands), plan, request,
                [cost |-> sums.cost + Weighted(Head(cands).prob, one.cost),
                 finish_time |-> sums.finish_time
                                   + Weighted(Head(cands).prob, one.finish_time),
                 passenger_time |-> sums.passenger_time
                                   + Weighted(Head(cands).prob,
                                              one.passenger_time)])

\* _estimate_incremental_cost of the packaged scheduler
ExpectedEstimate(plan, request, cands) ==
    IF cands = <<>> THEN None
    ELSE ExpectedLoop(cands, plan, request,
                      [cost |-> 0, finish_time |-> 0, passenger_time |-> 0])

PlanTimes == {0, 40}

\* one call of the packaged _estimate_incremental_cost
Estimate ==
    \E r \in ReqIds, f \in Floors, t \in PlanTimes :
        \E cands \in {_destination_candidates(requests[r])} :
            /\ probe = None
            /\ probe' = [plan |-> [floor |-> f, time |-> t], request |-> r]
            /\ dest_candidates' = cands
            /\ expected' = ExpectedEstimate([floor |-> f, time |-> t],
                                            requests[r], cands)
            /\ UNCHANGED <<inputVars, phase, elevVars, stampVars, greedyVars,
                           mpcVars, simVars, milpVars, gridVars, predictor,
                           doorVars, objective>>

DistItems == [dest : 1..PickupFloors, prob : 0..MaxWeight]

\* what predict_distribution_dict can answer: distinct keys, weights >= 0
Distributions ==
    {d \in UNION {[1..n -> DistItems] : n \in 0..(DEST_TOP_K + 1)} :
        \A i, j \in DOMAIN d : i # j => d[i].dest # d[j].dest}

PredictorStates ==
    {[loaded |-> FALSE, raises |-> FALSE, dist |-> <<>>],
     [loaded |-> TRUE, raises |-> TRUE, dist |-> <<>>]}
      \cup {[loaded |-> TRUE, raises |-> FALSE, dist |-> d] : d \in Distributions}

PredictLists ==
    {<<[origin |-> o, destination |-> d, load |-> 2, arrival_time |-> 0]>> :
        o \in Floors, d \in Floors}

InitPredict ==
    \E reqs \in PredictLists, p \in PredictorStates :
        /\ reqs[1].origin # reqs[1].destination
        /\ InitCore(reqs, 1)
        /\ NoSolver
        /\ NoSweep
        /\ simulator = "simulate_dispatch"
        /\ policy = "mpc"
        /\ lookahead_window = None
        /\ max_batch = None
        /\ predictor = p
        /\ probe = None
        /\ dest_candidates = None
        /\ expected = None
        /\ NoDoor
        /\ NotScored

NextPredict == Estimate

SpecPredict == InitPredict /\ [][NextPredict]_vars

\* the distribution the claim calls usable
Usable ==
    /\ predictor.loaded
    /\ ~predictor.raises
    /\ predictor.dist # <<>>
    /\ SumProb(predictor.dist) > 0

RECURSIVE SumNum(_)
SumNum(cands) ==
    IF cands = <<>> THEN 0 ELSE Head(cands).prob.num + SumNum(Tail(cands))

\* every candidate is an item of dist and no item left out weighs more
TopOfDistribution ==
    /\ \A i \in DOMAIN dest_candidates :
          \E j \in DOMAIN predictor.dist :
              /\ predictor.dist[j].dest = dest_candidates[i].destination
              /\ predictor.dist[j].prob = dest_candidates[i].prob.num
    /\ \A j \in DOMAIN predictor.dist :
          (\A i \in DOMAIN dest_candidates :
               predictor.dist[j].dest # dest_candidates[i].destination)
            => \A i \in DOMAIN dest_candidates :
                   predictor.dist[j].prob <= dest_candidates[i].prob.num

(***************************************************************************)
(* C31: predictor fallback.  When the predictor is not loaded, raises, or  *)
(* answers with an empty or zero-total distribution, the estimate is the   *)
(* cost on the request's true destination with probability 1; when it      *)
(* answers with a usable distribution, at most the top 3 destinations are  *)
(* used and their renormalised probabilities sum to 1.                     *)
(***************************************************************************)
C31_PredictorFallback ==
    probe # None =>
       IF Usable
       THEN /\ Len(dest_candidates) \in 1..3
            /\ Len(dest_candidates) = Min(3, Len(predictor.dist))
            /\ TopOfDistribution
            /\ \A i \in DOMAIN dest_candidates :
                  /\ dest_candidates[i].prob.den > 0
                  /\ dest_candidates[i].prob.den = SumNum(dest_candidates)
       ELSE /\ dest_candidates
                 = <<[destination |-> requests[probe.request].destination,
                      prob |-> Certain]>>
            /\ expected = _estimate_incremental_cost(probe.plan, probe.request)

\* a usable distribution over four destinations was cut to its top three
C31_Witness ==
    /\ probe # None
    /\ Usable
    /\ Len(predictor.dist) = 4
    /\ Len(dest_candidates) = 3

\* an answer whose weights are all zero sent the estimate to the true destination
C31_WitnessFallback ==
    /\ probe # None
    /\ predictor.loaded
    /\ predictor.dist # <<>>
    /\ ~Usable
    /\ Len(dest_candidates) = 1

(***************************************************************************)
(* hold_time on its own: the two weights are drawn at the start and one    *)
(* call returns the dwell.                                                 *)
(***************************************************************************)
MaxHeld == 8

Hold ==
    /\ door_dwell = None
    /\ door_dwell' = Some(hold_time(door_weights.boarding_weight,
                                    door_weights.alighting_weight))
    /\ UNCHANGED <<inputVars, phase, elevVars, stampVars, greedyVars, mpcVars,
                   simVars, milpVars, gridVars, predVars, door_weights,
                   objective>>

InitDwell ==
    /\ InitCore(<<>>, 1)
    /\ NoSolver
    /\ NoSweep
    /\ NoPredictor
    /\ NotScored
    /\ simulator = "simulate_dispatch"
    /\ policy = "greedy"
    /\ lookahead_window = None
    /\ max_batch = None
    /\ door_weights \in [boarding_weight : 0..MaxHeld,
                         alighting_weight : 0..MaxHeld]
    /\ door_dwell = None

NextDwell == Hold

SpecDwell == InitDwell /\ [][NextDwell]_vars

HeldWeight == door_weights.boarding_weight + door_weights.alighting_weight

(***************************************************************************)
(* C32: dwell continuity and monotonicity.  At a total weight equal to the *)
(* congestion threshold both branches of hold_time give                    *)
(* base + normal_rate * threshold, and the dwell is strictly increasing in *)
(* the total weight.                                                       *)
(***************************************************************************)
C32_DwellContinuity ==
    door_dwell # None =>
       /\ HeldWeight = HOLD_CONGESTION_THRESHOLD
            => /\ door_dwell[1]
                    = HOLD_BASE_TIME + HOLD_EFF_NORMAL * HOLD_CONGESTION_THRESHOLD
               /\ door_dwell[1] = HoldNormal(HeldWeight)
               /\ door_dwell[1] = HoldCongested(HeldWeight)
       /\ \A lighter \in 0..(2 * MaxHeld) :
             lighter < HeldWeight => hold_time(lighter, 0) < door_dwell[1]
       /\ \A heavier \in 0..(2 * MaxHeld) :
             heavier > HeldWeight => hold_time(0, heavier) > door_dwell[1]

\* a dwell was computed for a total weight that sits exactly on the threshold
C32_Witness ==
    /\ door_dwell # None
    /\ HeldWeight = HOLD_CONGESTION_THRESHOLD
    /\ door_weights.boarding_weight > 0
    /\ door_weights.alighting_weight > 0

(***************************************************************************)
(* simulate_dispatch on three elevators: the first and the third hold      *)
(* copies of the same queue and start on the same floor, the second holds  *)
(* any other request and starts on any floor.                              *)
(***************************************************************************)
TwinLists ==
    UNION {[1..n -> {r \in [origin : Floors, destination : Floors,
                            load : {2}, arrival_time : {0, 40}] :
                       r.origin # r.destination}] : n \in 1..MaxRequests}

OtherRequests ==
    {r \in [origin : Floors, destination : Floors, load : {2, 3},
            arrival_time : {40, 300}] : r.origin # r.destination}

\* ids 2i - 1 and 2i are the two copies of twins[i], the last id is other
TwinRequests(twins, other) ==
    [i \in 1..(2 * Len(twins) + 1) |->
        IF i = 2 * Len(twins) + 1 THEN other ELSE twins[(i + 1) \div 2]]

TwinQueues(twins) ==
    [e \in 1..3 |->
        IF e = 2 THEN <<2 * Len(twins) + 1>>
        ELSE [i \in 1..Len(twins) |-> IF e = 1 THEN 2 * i - 1 ELSE 2 * i]]

InitIndependent ==
    \E twins \in TwinLists, other \in OtherRequests, f \in Floors :
        /\ ArrivalSorted(TwinRequests(twins, other))
        /\ InitAt(TwinRequests(twins, other), 3,
                  [e \in 1..3 |-> IF e = 2 THEN f ELSE InitialFloor],
                  TwinQueues(twins), "assigned")
        /\ NoSolver
        /\ NoSweep
        /\ NoPredictor
        /\ NoDoor
        /\ NotScored
        /\ simulator = "simulate_dispatch"
        /\ policy = "baseline"
        /\ lookahead_window = None
        /\ max_batch = None

SpecIndependent == InitIndependent /\ [][NextSimulate]_vars

\* the copy, in the third elevator, of a request of the first elevator
Twin(r) == r + 1

TwinsOfFirst == {r \in ReqIds : r % 2 = 1 /\ r < Len(requests)}

(***************************************************************************)
(* C33: elevator independence.  The timestamps of the requests of one      *)
(* elevator, the order of its served_requests and its final floor depend   *)
(* only on its own initial floor and queue: the third elevator, simulated  *)
(* after two others, ends exactly as the first one, whatever the second    *)
(* elevator held and wherever it started.                                  *)
(***************************************************************************)
C33_ElevatorIndependence ==
    phase = "returned" =>
       /\ \A r \in TwinsOfFirst :
             /\ pickup_time[Twin(r)] = pickup_time[r]
             /\ dropoff_time[Twin(r)] = dropoff_time[r]
             /\ origin_arrival_time[Twin(r)] = origin_arrival_time[r]
             /\ destination_arrival_time[Twin(r)] = destination_arrival_time[r]
       /\ served_requests[3]
            = [i \in DOMAIN served_requests[1] |-> Twin(served_requests[1][i])]
       /\ floor[3] = floor[1]
       /\ initial_floor[3] = initial_floor[1]

\* both copies were served after a second elevator that started elsewhere
\* and ended later than the first
C33_Witness ==
    /\ phase = "returned"
    /\ Len(served_requests[1]) = 2
    /\ Len(served_requests[3]) = 2
    /\ Len(served_requests[2]) = 1
    /\ initial_floor[2] # initial_floor[1]
    /\ pickup_time[1] # None
    /\ dropoff_time[Len(requests)] # None

(***************************************************************************)
(* C34: greedy queue balance.  After every assignment made by              *)
(* assign_requests_greedy, and so at its end, the queue lengths of any two *)
(* elevators differ by at most 1.                                          *)
(***************************************************************************)
C34_GreedyBalance ==
    (phase = "greedy" \/ phase = "assigned") =>
       \A e \in ElevIds, o \in ElevIds : Len(queue[e]) - Len(queue[o]) <= 1

\* the second request went to the second car although the first car was
\* forecast at its origin and the second was not
C34_Witness ==
    /\ phase = "greedy"
    /\ Len(elevators) = 2
    /\ Len(queue[1]) = 1
    /\ Len(queue[2]) = 1
    /\ requests[queue[1][1]].origin = requests[queue[2][1]].origin
    /\ requests[queue[2][1]].origin # floor[2]
    /\ todo # <<>>

(***************************************************************************)
(* assign_requests_mpc alone, called with an explicit lookahead_window.    *)
(***************************************************************************)
Windows == {0, 40}

InitWindow ==
    \E reqs \in LongLists :
        /\ ArrivalSorted(reqs)
        /\ InitRun(reqs, ELEVATOR_COUNT)
        /\ policy = "mpc"
        /\ lookahead_window \in {None} \cup {Some(w) : w \in Windows}
        /\ max_batch = None

SpecWindow == InitWindow /\ [][NextMpc]_vars

\* the plans and the queues after the option sel of un was committed
PlansAfter(un, pl, sel) ==
    [pl EXCEPT ![sel.elevator_id] =
        [floor |-> requests[un[sel.idx]].destination, time |-> sel.finish_time]]

QueuesAfter(un, q, sel) ==
    [q EXCEPT ![sel.elevator_id] = Append(@, un[sel.idx])]

CursorAfter(cursor, tied, sel) ==
    IF Len(tied) > 1 THEN (sel.elev_idx + 1) % Len(elevators) ELSE cursor

\* the queues the while loop ends with, as a function of the window hor
RECURSIVE MpcQueues(_, _, _, _, _, _)
MpcPass(un, pl, cursor, q, hor, limit, tied, sel) ==
    MpcQueues(RemoveAt(un, sel.idx), PlansAfter(un, pl, sel),
              CursorAfter(cursor, tied, sel), QueuesAfter(un, q, sel),
              hor, limit)

MpcTied(un, pl, cursor, q, hor, limit, tied) ==
    MpcPass(un, pl, cursor, q, hor, limit, tied, SelectedOption(tied, cursor))

MpcQueues(un, pl, cursor, q, hor, limit) ==
    IF un = <<>> THEN q
    ELSE MpcTied(un, pl, cursor, q, hor, limit,
                 TiedOptions(CandidateOptions(
                     un, CandidateIndices(un, hor, limit), pl)))

QueuesUnder(hor) ==
    MpcQueues(SortedByArrival([i \in DOMAIN requests |-> i]),
              [e \in ElevIds |-> [floor |-> floor[e], time |-> 0]],
              0, [e \in ElevIds |-> <<>>], hor,
              BatchLimitFor(max_batch, Len(elevators)))

(***************************************************************************)
(* C35: window irrelevance.  For a fixed request list, elevator set and    *)
(* max_batch the queues assign_requests_mpc produces are the same for      *)
(* every lookahead_window: every pass takes the first                      *)
(* min(max_batch, number unassigned) requests in arrival order as batch.   *)
(***************************************************************************)
C35_WindowIrrelevance ==
    /\ [](phase = "assigned"
            => \A w \in Windows \cup {MPC_LOOKAHEAD_WINDOW} :
                  QueuesUnder(w) = queue)
    /\ [][(phase = "mpc" /\ unassigned # <<>>)
            => candidate_indices'
                 = [i \in 1..Min(batch_limit, Len(unassigned)) |-> i]]_vars

\* a call with a window of zero that took a batch of two requests, the
\* second of which arrives after the window has closed
C35_Witness ==
    /\ phase = "mpc"
    /\ lookahead_window = Some(0)
    /\ Len(requests) = 3
    /\ Len(unassigned) = 2
    /\ candidate_indices = <<1, 2>>
    /\ requests[1].arrival_time < requests[2].arrival_time

\* the packaged estimator, over every answer of the predictor
PackagedEstimateTotal ==
    probe # None => dest_candidates # <<>> /\ expected # None

SkipLists ==
    [1..LongRequests -> {r \in [origin : Floors, destination : Floors,
                                load : {2, 4}, arrival_time : {0, 40}] :
                           r.origin # r.destination}]

InitSkip ==
    \E reqs \in SkipLists :
        /\ ArrivalSorted(reqs)
        /\ InitWith(reqs, 1, [e \in 1..1 |-> [i \in 1..Len(reqs) |-> i]],
                    "assigned")
        /\ NoSolver
        /\ NoSweep
        /\ NoPredictor
        /\ NoDoor
        /\ NotScored
        /\ simulator \in {"simulate_dispatch", "simulate_baseline"}
        /\ policy = "baseline"
        /\ lookahead_window = None
        /\ max_batch = None

SpecSkip == InitSkip /\ [][NextSimulate]_vars

\* the capacity left when the candidate at position i is considered
RemainingAt(cands, i, boarded) ==
    Max(0, CapacityAfterAlighting) - BoardedBefore(cands, i, boarded)

(***************************************************************************)
(* C37: skip-ahead boarding.  At a stop a candidate is refused only when   *)
(* its own load exceeds the capacity remaining at the moment it is         *)
(* considered; admission does not stop at the first refusal, so a later    *)
(* candidate that fits is admitted at the same stop although an earlier    *)
(* one was left in waiting.                                                *)
(***************************************************************************)
C37_SkipAheadBoarding ==
    [][AtDoors =>
         \E cands \in {CandidatesFor(direction')} :
            \E boarded \in {{r \in ToSet(cands) : pickup_time'[r] # None}} :
               \A i \in DOMAIN cands :
                  /\ cands[i] \notin boarded
                       => /\ requests[cands[i]].load
                               > RemainingAt(cands, i, boarded)
                          /\ Contains(waiting', cands[i])
                  /\ requests[cands[i]].load <= RemainingAt(cands, i, boarded)
                       => cands[i] \in boarded]_vars

\* a request that had arrived, and did not fit beside those aboard, still
\* waits where a lighter request behind it in waiting order has boarded
\* within the capacity
C37_Witness ==
    /\ phase = "simulate"
    /\ \E a \in ToSet(waiting), b \in ToSet(onboard) :
          /\ a < b
          /\ requests[a].origin = requests[b].origin
          /\ requests[a].load <= ELEVATOR_CAPACITY
          /\ pickup_time[a] = None
          /\ origin_arrival_time[b] # None
          /\ requests[a].arrival_time <= origin_arrival_time[b][1]
          /\ (requests[a].destination > requests[a].origin)
               = (requests[b].destination > requests[b].origin)
          /\ SumLoad(onboard) <= ELEVATOR_CAPACITY
          /\ requests[a].load + SumLoad(onboard) - requests[b].load
               > ELEVATOR_CAPACITY

(***************************************************************************)
(* simulate_dispatch on two elevators that hold copies of the same         *)
(* requests, with pairwise distinct arrival times: the first queue is in   *)
(* arrival order, the second in any order.                                 *)
(***************************************************************************)
DistinctLists ==
    UNION {[1..n -> {r \in [origin : Floors, destination : Floors,
                            load : {2}, arrival_time : ArrivalTimes] :
                       r.origin # r.destination}] : n \in 2..LongRequests}

DistinctArrivals(s) ==
    \A i \in 1..(Len(s) - 1) : s[i].arrival_time < s[i + 1].arrival_time

\* ids 2i - 1 and 2i are the two copies of twins[i]
CopiedRequests(twins) ==
    [i \in 1..(2 * Len(twins)) |-> twins[(i + 1) \div 2]]

\* the orders n things can be put in
Orders(n) ==
    {order \in [1..n -> 1..n] :
        \A i, j \in 1..n : i # j => order[i] # order[j]}

InitPermuted ==
    \E twins \in DistinctLists :
        \E order \in Orders(Len(twins)) :
            /\ DistinctArrivals(twins)
            /\ InitWith(CopiedRequests(twins), 2,
                        [e \in 1..2 |->
                            [i \in 1..Len(twins) |->
                                IF e = 1 THEN 2 * i - 1 ELSE 2 * order[i]]],
                        "assigned")
            /\ NoSolver
            /\ NoSweep
            /\ NoPredictor
            /\ NoDoor
            /\ NotScored
            /\ simulator = "simulate_dispatch"
            /\ policy = "mpc"
            /\ lookahead_window = None
            /\ max_batch = None

SpecPermuted == InitPermuted /\ [][NextSimulate]_vars

\* every order the sequence s can be put in
Reorderings(s) ==
    {[i \in 1..Len(s) |-> s[order[i]]] : order \in Orders(Len(s))}

(***************************************************************************)
(* C38: queue-order invariance.  For a queue whose requests have pairwise  *)
(* distinct arrival times the outcome of simulate_dispatch for that        *)
(* elevator is the same for every permutation of the queue: pending is the *)
(* same list whatever the order of the queue, and the elevator whose queue *)
(* was shuffled ends with the timestamps, the served order and the final   *)
(* floor of the elevator whose queue was not.                              *)
(***************************************************************************)
C38_QueueOrderInvariance ==
    /\ [](phase = "returned"
            => /\ \A r \in TwinsOfFirst :
                     /\ pickup_time[Twin(r)] = pickup_time[r]
                     /\ dropoff_time[Twin(r)] = dropoff_time[r]
                     /\ origin_arrival_time[Twin(r)] = origin_arrival_time[r]
                     /\ destination_arrival_time[Twin(r)]
                          = destination_arrival_time[r]
               /\ served_requests[2]
                    = [i \in DOMAIN served_requests[1] |->
                          Twin(served_requests[1][i])]
               /\ floor[2] = floor[1])
    /\ [][(phase = "simulate" /\ pc = "elev" /\ k <= Len(elevators))
            => \A shuffled \in Reorderings(queue[elevators[k]]) :
                  SortedByArrival(shuffled) = pending']_vars

\* the second elevator has served three requests from a queue that held
\* them in reverse order of arrival
C38_Witness ==
    /\ phase = "simulate"
    /\ k = 2
    /\ pc = "top"
    /\ Len(queue[2]) = 3
    /\ queue[2][1] > queue[2][2]
    /\ queue[2][2] > queue[2][3]
    /\ pending = <<>>
    /\ waiting = <<>>
    /\ onboard = <<>>
    /\ \A i \in 1..3 : dropoff_time[queue[2][i]] # None


(***************************************************************************)
(* C39: accumulator monotonicity.  Inside simulate_dispatch the clock of   *)
(* the elevator being simulated, total_time, total_energy and              *)
(* emptyload_energy never decrease, and emptyload_energy never exceeds     *)
(* total_energy: the empty-load energy is a share of the total energy.     *)
(* The clock is compared between two steps of the same elevator's loop;    *)
(* the next elevator starts its own clock at zero.                         *)
(***************************************************************************)
C39_AccumulatorMonotonicity ==
    /\ [][(InLoops /\ InLoops') => current_time' >= current_time]_vars
    /\ [][phase = "simulate" =>
            /\ total_time' >= total_time
            /\ total_energy' >= total_energy
            /\ emptyload_energy' >= emptyload_energy]_vars
    /\ [](emptyload_energy <= total_energy)

\* a run has ended in which the car ran empty, ran loaded and stood idle
\* until a later arrival: every accumulator has grown, the clock beyond
\* the running time, and the empty-load share is a strict part of the total
C39_Witness ==
    /\ phase = "returned"
    /\ 0 < emptyload_energy
    /\ emptyload_energy < total_energy
    /\ 0 < total_time
    /\ total_time < current_time


(***************************************************************************)
(* models/objective.py: compute_objective over the served_requests and     *)
(* the total_energy that simulate_dispatch returned.                       *)
(***************************************************************************)
\* the ride counted from the moment the doors closed behind the passenger
InCabFromPickup(r) ==
    Max(destination_arrival_time[r][1] - pickup_time[r][1], 0)

\* max(dest_arrival - arr, 0.0)
PassengerTime(r) ==
    Max(destination_arrival_time[r][1] - requests[r].arrival_time, 0)

\* wait = max(origin_arrival - arr, 0.0)
WaitTime(r) == Max(origin_arrival_time[r][1] - requests[r].arrival_time, 0)

\* max(dest_arrival - origin_arrival, 0.0)
InCabTime(r) ==
    Max(destination_arrival_time[r][1] - origin_arrival_time[r][1], 0)

\* one pass of the loop: a request without destination_arrival_time is
\* skipped, one without origin_arrival_time rides for its whole time
AddRequest(sums, r) ==
    IF destination_arrival_time[r] = None
    THEN sums
    ELSE [total_passenger_time |-> sums.total_passenger_time + PassengerTime(r),
          total_wait_time |->
              IF origin_arrival_time[r] # None
              THEN sums.total_wait_time + WaitTime(r)
              ELSE sums.total_wait_time,
          total_in_cab_time |->
              IF origin_arrival_time[r] # None
              THEN sums.total_in_cab_time + InCabTime(r)
              ELSE sums.total_in_cab_time + PassengerTime(r),
          served_count |-> sums.served_count + 1]

RECURSIVE ObjectiveLoop(_, _)
ObjectiveLoop(served, sums) ==
    IF served = <<>>
    THEN sums
    ELSE ObjectiveLoop(Tail(served), AddRequest(sums, Head(served)))

compute_objective(served, energy) ==
    LET sums == ObjectiveLoop(served,
                    [total_passenger_time |-> 0, total_wait_time |-> 0,
                     total_in_cab_time |-> 0, served_count |-> 0])
    IN [total_cost |-> WEIGHT_TIME * sums.total_passenger_time
                         + WEIGHT_ENERGY * energy,
        total_passenger_time |-> sums.total_passenger_time,
        total_wait_time |-> sums.total_wait_time,
        total_in_cab_time |-> sums.total_in_cab_time,
        served_count |-> sums.served_count]

\* the caller scores what simulate_dispatch returned
Score ==
    /\ phase = "returned"
    /\ objective = None
    /\ objective' = Some(compute_objective(all_served, total_energy))
    /\ UNCHANGED <<inputVars, milpVars, gridVars, predVars, doorVars, phase,
                   elevVars, stampVars, greedyVars, mpcVars, simVars>>

NextScore ==
    \/ Next
    \/ Score

SpecScore == Init /\ [][NextScore]_vars

(***************************************************************************)
(* C40: objective decomposition.  For the served_requests returned by      *)
(* simulate_dispatch, compute_objective counts every request (none is      *)
(* skipped for a missing timestamp), total_passenger_time is               *)
(* total_wait_time + total_in_cab_time, and no clamp at zero takes         *)
(* effect: arrival_time <= origin_arrival_time <= destination_arrival_time *)
(* for every served request.                                               *)
(***************************************************************************)
C40_ObjectiveDecomposition ==
    objective # None =>
        /\ objective[1].served_count = Len(all_served)
        /\ objective[1].total_passenger_time
             = objective[1].total_wait_time + objective[1].total_in_cab_time
        /\ \A i \in DOMAIN all_served :
              LET r == all_served[i]
              IN /\ origin_arrival_time[r] # None
                 /\ destination_arrival_time[r] # None
                 /\ requests[r].arrival_time <= origin_arrival_time[r][1]
                 /\ origin_arrival_time[r][1] <= destination_arrival_time[r][1]

\* two served requests have been scored, one of which waited for the car
\* and rode in it
C40_Witness ==
    /\ objective # None
    /\ objective[1].served_count = 2
    /\ objective[1].total_wait_time > 0
    /\ objective[1].total_in_cab_time > 0
    /\ objective[1].total_passenger_time
         > objective[1].total_in_cab_time

=============================================================================
